---- MODULE Spec2Model ----
(***************************************************************************)
(* Sentra backend: the baseline-drift scoring engine (engine/drift.py),    *)
(* the ingestion routes that feed it (routes/checkin.py, routes/events.py) *)
(* and the startup seed (seed.py), as a state machine over the tables      *)
(* daily_summaries, typing_sessions, voice_sessions and risk_scores.       *)
(*                                                                         *)
(* Numbers.  The program computes in IEEE doubles; the model computes in   *)
(* fixed point, with every quantity an integer count of a stated quantum:  *)
(*   signal values   integers in the signal's own unit (sleep_hours in     *)
(*                   tenths of an hour, backspace ratio and sentiment in   *)
(*                   hundredths, the others in whole units);               *)
(*   mean, std       1/U of a signal unit (U = 10^4)                       *)
(*   z-scores        1/ZU (ZU = 10^5), clipped at +-ZCAP                   *)
(*   weights         hundredths, so a contribution counts 10^-7            *)
(*   wellbeing       10^-5 points before rounding, tenths once rounded     *)
(* Every division truncates toward zero.  EPS = 1e-6 is below the          *)
(* resolution of std and is carried as one quantum of it, which keeps      *)
(* what EPS is for: std is never 0, and a zero-variance signal gives a     *)
(* z-score large enough to saturate the risk.                              *)
(***************************************************************************)
EXTENDS Integers, Sequences, FiniteSets, TLC

\* ------------------------------------------------------------------ numbers

\* Python's None in a nullable numeric column.
NULL == -1000000

\* Fixed-point scale of mean and std.
U == 10000

\* Fixed-point scale of a z-score.
ZU == 100000

\* Clip of a z-score: 100 sigma.  risk saturates at 1 from |z| >= 8.4 already.
ZCAP == 10000000

Abs(x) == IF x < 0 THEN -x ELSE x

Max(a, b) == IF a >= b THEN a ELSE b

Min(a, b) == IF a <= b THEN a ELSE b

Sign(x) == IF x < 0 THEN -1 ELSE IF x > 0 THEN 1 ELSE 0

\* Truncating division of integers, den > 0 (Python's float division, cut
\* to the quantum of the result).
TDiv(num, den) == Sign(num) * (Abs(num) \div den)

\* floor(sqrt(x)) for 0 <= x < 2^31, by bisection on [lo, hi).
RECURSIVE ISqrtIn(_, _, _)
ISqrtIn(x, lo, hi) ==
    IF hi - lo <= 1 THEN lo
    ELSE LET mid == (lo + hi) \div 2
         IN  IF mid * mid <= x THEN ISqrtIn(x, mid, hi) ELSE ISqrtIn(x, lo, mid)

ISqrt(x) == ISqrtIn(x, 0, 46341)

\* One more decimal digit of a square root: from floor(sqrt(x) * 10^k) = root
\* with remainder rem = x*10^2k - root^2, the pair for k+1.
SqrtDigit(root, rem) ==
    LET r100 == rem * 100
        d == CHOOSE d \in 0..9 :
                 /\ (20 * root + d) * d <= r100
                 /\ (d = 9 \/ (20 * root + d + 1) * (d + 1) > r100)
    IN  <<10 * root + d, r100 - (20 * root + d) * d>>

RECURSIVE SqrtDigits(_, _, _)
SqrtDigits(root, rem, k) ==
    IF k = 0 THEN root
    ELSE LET nx == SqrtDigit(root, rem) IN SqrtDigits(nx[1], nx[2], k - 1)

\* floor(sqrt(x) * U), U = 10^4.
SqrtU(x) == LET r == ISqrt(x) IN SqrtDigits(r, x - r * r, 4)

\* floor(num * 10^k / den) for num >= 0, den > 0, digit by digit, capped.
RECURSIVE LongDiv(_, _, _, _)
LongDiv(q, rem, den, k) ==
    IF k = 0 \/ q >= ZCAP THEN Min(q, ZCAP)
    ELSE LongDiv(10 * q + ((10 * rem) \div den), (10 * rem) % den, den, k - 1)

\* (num / den) in units of 1/ZU, truncated toward zero and clipped at ZCAP.
QuotZ(num, den) ==
    LET a == Abs(num)
    IN  Sign(num) * LongDiv(Min(a \div den, ZCAP), a % den, den, 5)

\* round(x, 1) of a value counted in 1/q of a point (q a multiple of 20),
\* in tenths; ties go to the even tenth.
Round1(x, q) ==
    LET t == q \div 10
        lo == x \div t
        r == x % t
    IN  IF 2 * r > t THEN lo + 1
        ELSE IF 2 * r < t THEN lo
        ELSE IF lo % 2 = 0 THEN lo ELSE lo + 1

RECURSIVE SumSeq(_)
SumSeq(s) == IF s = <<>> THEN 0 ELSE Head(s) + SumSeq(Tail(s))

\* The element of a one-element set: The({f(v) : v \in {e}}) is f(e), with e
\* evaluated once however often f uses it.
The(S) == CHOOSE x \in S : TRUE

\* ---------------------------------------------------------------- constants

EPS == 1

DEFAULT_BASELINE_DAYS == 7

TREND_DAYS == 7

\* The keys of WEIGHTS, in the dict's order (the order of iteration).
KEYS ==
    << "sleep_hours", "sleep_quality", "activity_minutes", "mood_value",
       "typing_avg_interval_ms", "typing_std_ms", "typing_backspace_ratio",
       "typing_fragmentation", "voice_strain_score", "speech_sentiment_compound" >>

Signals == {KEYS[i] : i \in 1..Len(KEYS)}

\* WEIGHTS, in hundredths.
WEIGHTS ==
    [k \in Signals |->
        CASE k = "sleep_hours" -> 14
          [] k = "sleep_quality" -> 14
          [] k = "activity_minutes" -> 14
          [] k = "mood_value" -> 18
          [] k = "typing_avg_interval_ms" -> 11
          [] k = "typing_std_ms" -> 7
          [] k = "typing_backspace_ratio" -> 7
          [] k = "typing_fragmentation" -> 6
          [] k = "voice_strain_score" -> 9
          [] k = "speech_sentiment_compound" -> 6]

\* WEIGHTS.get(key, 0)
WeightOf(key) == IF key \in Signals THEN WEIGHTS[key] ELSE 0

\* ------------------------------------------------------------ baseline, risk

\* [r.get(key) for r in use if r.get(key) is not None]
RECURSIVE ValsOf(_, _)
ValsOf(use, key) ==
    IF use = <<>> THEN <<>>
    ELSE IF Head(use)[key] # NULL THEN <<Head(use)[key]>> \o ValsOf(Tail(use), key)
    ELSE ValsOf(Tail(use), key)

RECURSIVE SumSq(_)
SumSq(s) == IF s = <<>> THEN 0 ELSE Head(s) * Head(s) + SumSq(Tail(s))

\* float(np.mean(arr)), in 1/U.
MeanU(vals) == TDiv(SumSeq(vals) * U, Len(vals))

\* float(np.std(arr)), the population standard deviation, in 1/U:
\* sqrt(n*sum(v^2) - sum(v)^2) / n.
StdU(vals) ==
    The({SqrtU(Len(vals) * SumSq(vals) - s * s) \div Len(vals) : s \in {SumSeq(vals)}})

\* A _baseline_stats over the latest baseline_days rows.
baseline_stats_latest(rows, baseline_days) ==
    IF Len(rows) < 2 THEN [k \in {} |-> <<0, 0>>]
    ELSE The({ [k \in {key \in Signals : Len(ValsOf(use, key)) >= 2} |->
                   The({<<MeanU(vals), StdU(vals) + EPS>> : vals \in {ValsOf(use, k)}})] :
               use \in {SubSeq(rows, Max(1, Len(rows) - baseline_days + 1), Len(rows))} })

\* A _baseline_stats that takes a signal with a single non-null value.
baseline_stats_single(rows, baseline_days) ==
    IF Len(rows) < 2 THEN [k \in {} |-> <<0, 0>>]
    ELSE The({ [k \in {key \in Signals : Len(ValsOf(use, key)) >= 1} |->
                   The({<<MeanU(vals), StdU(vals) + EPS>> : vals \in {ValsOf(use, k)}})] :
               use \in {SubSeq(rows, 1, Min(baseline_days, Len(rows)))} })

\* _baseline_stats: mean and std per signal over the first baseline_days rows;
\* a function on the signals that have at least 2 non-null values.
baseline_stats(rows, baseline_days) ==
    IF Len(rows) < 2 THEN [k \in {} |-> <<0, 0>>]
    ELSE The({ [k \in {key \in Signals : Len(ValsOf(use, key)) >= 2} |->
                   The({<<MeanU(vals), StdU(vals) + EPS>> : vals \in {ValsOf(use, k)}})] :
               use \in {SubSeq(rows, 1, Min(baseline_days, Len(rows)))} })

\* _z_score: value in signal units (or NULL), mean and std in 1/U; z in 1/ZU.
z_score(value, mean, std) ==
    IF value = NULL \/ std <= 0 THEN 0
    ELSE QuotZ(value * U - mean, std)

\* A _deviation_to_risk with no direction: any deviation counts as bad.
deviation_to_risk_undirected(z, signal) == Abs(z)

\* A _deviation_to_risk that keeps the sign of a deviation to the good side.
deviation_to_risk_signed(z, signal) ==
    IF signal = "sleep_hours" THEN Abs(z)
    ELSE IF signal \in {"sleep_quality", "activity_minutes", "mood_value",
                        "speech_sentiment_compound"} THEN -z
    ELSE z

\* _deviation_to_risk
deviation_to_risk(z, signal) ==
    IF signal = "sleep_hours" THEN Abs(z)
    ELSE IF signal \in {"sleep_quality", "activity_minutes", "mood_value",
                        "speech_sentiment_compound"} THEN Max(0, -z)
    ELSE IF signal \in {"typing_avg_interval_ms", "typing_std_ms",
                        "typing_backspace_ratio", "typing_fragmentation"} THEN Max(0, z)
    ELSE IF signal = "voice_strain_score" THEN Max(0, z)
    ELSE Max(0, Abs(z))

\* The (key, contrib) pairs of _weighted_risk before sorting: the baseline's
\* keys in dict order, those with a value today.
RECURSIVE ContribFrom(_, _, _)
ContribFrom(i, day_row, baseline) ==
    IF i > Len(KEYS) THEN <<>>
    ELSE LET key == KEYS[i]
             rest == ContribFrom(i + 1, day_row, baseline)
         IN  IF key \in DOMAIN baseline /\ day_row[key] # NULL
             THEN LET z == z_score(day_row[key], baseline[key][1], baseline[key][2])
                  IN  <<<<key, deviation_to_risk(z, key) * WeightOf(key)>>>> \o rest
             ELSE rest

\* list.sort(key=lambda x: -x[1]): stable, largest contribution first.
RECURSIVE InsertDesc(_, _)
InsertDesc(sorted, c) ==
    IF sorted = <<>> THEN <<c>>
    ELSE IF Head(sorted)[2] >= c[2] THEN <<Head(sorted)>> \o InsertDesc(Tail(sorted), c)
    ELSE <<c>> \o sorted

RECURSIVE SortDesc(_)
SortDesc(cs) ==
    IF cs = <<>> THEN <<>>
    ELSE InsertDesc(SortDesc(SubSeq(cs, 1, Len(cs) - 1)), cs[Len(cs)])

RECURSIVE SumContrib(_)
SumContrib(cs) == IF cs = <<>> THEN 0 ELSE Head(cs)[2] + SumContrib(Tail(cs))

\* [c[0] for c in contributions[:3] if c[1] > 0.05]
RECURSIVE TopDrivers(_)
TopDrivers(cs) ==
    IF cs = <<>> THEN <<>>
    ELSE IF Head(cs)[2] > 500000 THEN <<Head(cs)[1]>> \o TopDrivers(Tail(cs))
    ELSE TopDrivers(Tail(cs))

\* A _weighted_risk whose risk is the plain sum of the contributions.
weighted_risk_unscaled(day_row, baseline) ==
    The({ [raw_risk |-> Min(10000000, SumContrib(contributions)),
           drivers |-> TopDrivers(SubSeq(contributions, 1, Min(3, Len(contributions)))),
           contributions |-> contributions] :
          contributions \in {SortDesc(ContribFrom(1, day_row, baseline))} })

\* A _weighted_risk that puts the risk at 0.5 when no signal contributes.
weighted_risk_neutral(day_row, baseline) ==
    The({ [raw_risk |-> IF contributions = <<>> THEN 5000000
                        ELSE Min(10000000, SumContrib(contributions) * 2),
           drivers |-> TopDrivers(SubSeq(contributions, 1, Min(3, Len(contributions)))),
           contributions |-> contributions] :
          contributions \in {SortDesc(ContribFrom(1, day_row, baseline))} })

\* _weighted_risk: raw_risk in 10^-7, the driver keys, the sorted contributions.
weighted_risk(day_row, baseline) ==
    The({ [raw_risk |-> Min(10000000, SumContrib(contributions) * 2),
           drivers |-> TopDrivers(SubSeq(contributions, 1, Min(3, Len(contributions)))),
           contributions |-> contributions] :
          contributions \in {SortDesc(ContribFrom(1, day_row, baseline))} })

\* A status whose two thresholds lie 5 points lower.
StatusOf_lenient(w, q) ==
    IF w >= 65 * q THEN "Stable" ELSE IF w >= 40 * q THEN "Watch" ELSE "High"

\* Stable / Watch / High of a wellbeing counted in 1/q of a point.
StatusOf(w, q) ==
    IF w >= 70 * q THEN "Stable" ELSE IF w >= 45 * q THEN "Watch" ELSE "High"

\* _wellbeing_and_status: risk in 10^-7; the status is taken from the wellbeing
\* before it is rounded.  Returns the rounded wellbeing, in tenths.
wellbeing_and_status(risk_0_1) ==
    The({ [wellbeing |-> Round1(wellbeing, 100000), status |-> StatusOf(wellbeing, 100000)] :
          wellbeing \in {Max(0, Min(10000000, 10000000 - risk_0_1))} })

\* The six mappings of _first_day_wellbeing, each in 10^-5 points.
MoodPart(mood) == Max(0, Min(10000000, TDiv((mood - 1) * 10000000, 9)))

SleepQualityPart(sq) == Max(0, Min(10000000, (sq - 1) * 2000000 + 2000000))

SleepHoursPart(sh) ==
    LET p == IF sh < 50 THEN 2000000
             ELSE IF sh < 60 THEN 5000000
             ELSE IF sh <= 90 THEN 7000000 + (40 - Abs(sh - 75)) * 75000
             ELSE Max(4000000, 8000000 - (sh - 90) * 100000)
    IN  Max(0, Min(10000000, p))

ActivityPart(act) == Min(10000000, TDiv(act * 1000000, 6))

VoicePart(vs) == Max(0, (100 - vs) * 100000)

SentimentPart(ssc) == Max(0, Min(10000000, (ssc + 100) * 50000))

\* The (key, part) pairs of _first_day_wellbeing, in the order it appends them.
FirstDayParts(day_row) ==
    LET one(key, p) == IF day_row[key] # NULL THEN <<<<key, p>>>> ELSE <<>>
    IN  one("mood_value", MoodPart(day_row["mood_value"]))
        \o one("sleep_quality", SleepQualityPart(day_row["sleep_quality"]))
        \o one("sleep_hours", SleepHoursPart(day_row["sleep_hours"]))
        \o one("activity_minutes", ActivityPart(day_row["activity_minutes"]))
        \o one("voice_strain_score", VoicePart(day_row["voice_strain_score"]))
        \o one("speech_sentiment_compound",
               SentimentPart(day_row["speech_sentiment_compound"]))

\* A _first_day_wellbeing without the final max(0, min(100, .)).
first_day_wellbeing_unclamped(day_row) ==
    The({ IF parts = <<>> THEN [wellbeing |-> 500, status |-> "Watch", drivers |-> <<>>]
          ELSE The({ [wellbeing |-> wellbeing,
                      status |-> StatusOf(wellbeing, 10),
                      drivers |-> [i \in 1..Min(3, Len(parts)) |-> parts[i][1]]] :
                     wellbeing \in {The({Sign(avg) * Round1(Abs(avg), 100000) :
                                         avg \in {TDiv(SumContrib(parts), Len(parts))}})} }) :
          parts \in {FirstDayParts(day_row)} })

\* _first_day_wellbeing: the wellbeing in tenths, the status of the rounded
\* wellbeing, the first three keys present.
first_day_wellbeing(day_row) ==
    The({ IF parts = <<>> THEN [wellbeing |-> 500, status |-> "Watch", drivers |-> <<>>]
          ELSE The({ [wellbeing |-> wellbeing,
                      status |-> StatusOf(wellbeing, 10),
                      drivers |-> [i \in 1..Min(3, Len(parts)) |-> parts[i][1]]] :
                     wellbeing \in {Max(0, Min(1000,
                                        Round1(TDiv(SumContrib(parts), Len(parts)), 100000)))} }) :
          parts \in {FirstDayParts(day_row)} })

\* The least-squares slope of scores against their index (np.polyfit(x, y, 1)),
\* as the fraction num / den, den > 0, in the unit of the scores per step.
RECURSIVE SumXY(_, _)
SumXY(scores, i) ==
    IF i > Len(scores) THEN 0 ELSE (i - 1) * scores[i] + SumXY(scores, i + 1)

SlopeNum(scores) ==
    LET n == Len(scores)
    IN  n * SumXY(scores, 1) - ((n * (n - 1)) \div 2) * SumSeq(scores)

SlopeDen(scores) ==
    LET n == Len(scores)
        sx == (n * (n - 1)) \div 2
        sxx == ((n - 1) * n * (2 * n - 1)) \div 6
    IN  n * sxx - sx * sx

\* A _momentum whose rapid_rise threshold is -3 instead of -2.
momentum_late(scores) ==
    IF Len(scores) < 2 THEN "stable"
    ELSE IF SlopeNum(scores) <= -30 * SlopeDen(scores) THEN "rapid_rise"
    ELSE IF SlopeNum(scores) <= -5 * SlopeDen(scores) THEN "slow_rise"
    ELSE "stable"

\* _momentum: scores in tenths, oldest first.
momentum(scores) ==
    IF Len(scores) < 2 THEN "stable"
    ELSE IF SlopeNum(scores) <= -20 * SlopeDen(scores) THEN "rapid_rise"
    ELSE IF SlopeNum(scores) <= -5 * SlopeDen(scores) THEN "slow_rise"
    ELSE "stable"

\* A _compute_momentum_label_and_strength that fits the line for 2 scores too.
compute_momentum_label_and_strength_slope_only(scores) ==
    IF Len(scores) < 2 THEN <<"Stable", "None">>
    ELSE IF SlopeNum(scores) >= 8 * SlopeDen(scores)
    THEN <<"Recovering", IF SlopeNum(scores) >= 20 * SlopeDen(scores) THEN "rapid" ELSE "slow">>
    ELSE IF SlopeNum(scores) <= -8 * SlopeDen(scores)
    THEN <<"Rising", IF SlopeNum(scores) <= -20 * SlopeDen(scores) THEN "rapid" ELSE "slow">>
    ELSE <<"Stable", "None">>

\* _compute_momentum_label_and_strength: (momentum_label, momentum_strength),
\* strength "None" for None; scores in tenths, oldest first.
compute_momentum_label_and_strength(scores) ==
    IF Len(scores) < 2 THEN <<"Stable", "None">>
    ELSE IF Len(scores) = 2
    THEN The({ IF score_change <= -50
               THEN <<"Rising", IF score_change <= -150 THEN "rapid" ELSE "slow">>
               ELSE IF score_change >= 50
               THEN <<"Recovering", IF score_change >= 150 THEN "rapid" ELSE "slow">>
               ELSE <<"Stable", "None">> :
               score_change \in {scores[2] - scores[1]} })
    ELSE The({ IF slope[1] >= 8 * slope[2]
               THEN <<"Recovering", IF slope[1] >= 20 * slope[2] THEN "rapid" ELSE "slow">>
               ELSE IF slope[1] <= -8 * slope[2]
               THEN <<"Rising", IF slope[1] <= -20 * slope[2] THEN "rapid" ELSE "slow">>
               ELSE <<"Stable", "None">> :
               slope \in {<<SlopeNum(scores), SlopeDen(scores)>>} })

\* A momentum label of get_today_score that is always the generic one.
today_momentum_generic(status, current_score, recent_scores) ==
    compute_momentum_label_and_strength(recent_scores)

\* The momentum_label and momentum_strength of get_today_score (drift.py
\* 423-465) for today's row (status, current_score) and the scores of the
\* window, oldest first; scores in tenths.
today_momentum(status, current_score, recent_scores) ==
    IF status = "High" /\ current_score < 450
    THEN IF Len(recent_scores) >= 2
         THEN The({ IF score_change < 0
                    THEN <<"Rising", IF score_change <= -100 THEN "rapid" ELSE "slow">>
                    ELSE IF score_change >= 100
                    THEN <<"Recovering", IF score_change >= 200 THEN "rapid" ELSE "slow">>
                    ELSE IF current_score < 300
                    THEN <<"Rising", "slow">>
                    ELSE compute_momentum_label_and_strength(recent_scores) :
                    score_change \in {current_score - recent_scores[Len(recent_scores) - 1]} })
         ELSE <<"Rising", "slow">>
    ELSE IF status = "Watch" /\ current_score < 450
    THEN IF Len(recent_scores) >= 2
         THEN The({ IF score_change < -30
                    THEN <<"Rising", IF score_change <= -100 THEN "rapid" ELSE "slow">>
                    ELSE compute_momentum_label_and_strength(recent_scores) :
                    score_change \in {current_score - recent_scores[Len(recent_scores) - 1]} })
         ELSE <<"Stable", "None">>
    ELSE IF Len(recent_scores) >= 2
         THEN compute_momentum_label_and_strength(recent_scores)
         ELSE <<"Stable", "None">>

\* _confidence
confidence(n_baseline, missing_count) ==
    IF n_baseline < 4 \/ missing_count >= 4 THEN "low"
    ELSE IF n_baseline >= 7 /\ missing_count <= 1 THEN "high"
    ELSE "med"

\* ------------------------------------------------------------------- tables

\* Rows of daily_summaries, typing_sessions, voice_sessions, risk_scores and
\* users, each table a sequence in the order of its autoincrement id.
VARIABLES today, users, daily, typing, voice, risk

\* Whether Firebase is configured (every request is then a token's uid) or not
\* (every request is user "demo"); fixed for a deployment.
VARIABLES firebase

\* The last call made and what it returned.
VARIABLES last

\* A DailySummary row with every nullable column None.
EmptyDaily(user_id, date) ==
    [user_id |-> user_id, date |-> date,
     sleep_hours |-> NULL, sleep_quality |-> NULL, activity_minutes |-> NULL,
     mood_value |-> NULL, typing_avg_interval_ms |-> NULL, typing_std_ms |-> NULL,
     typing_backspace_ratio |-> NULL, typing_fragmentation |-> NULL,
     typing_late_night |-> "None", voice_strain_score |-> NULL,
     voice_strain_level |-> "None", voice_confidence |-> "None",
     speech_sentiment_compound |-> NULL, speech_sentiment_label |-> "None"]

\* query(...).filter(user_id == u, date == d).first(): the index of the first
\* matching row, 0 for None.
RECURSIVE FirstAt(_, _, _, _)
FirstAt(table, user_id, date, i) ==
    IF i > Len(table) THEN 0
    ELSE IF table[i].user_id = user_id /\ table[i].date = date THEN i
    ELSE FirstAt(table, user_id, date, i + 1)

First(table, user_id, date) == FirstAt(table, user_id, date, 1)

\* The rows of a user dated in [from_date, to_date], in id order.
Filter(table, user_id, from_date, to_date) ==
    SelectSeq(table, LAMBDA r : r.user_id = user_id /\ r.date >= from_date
                                /\ r.date <= to_date)

\* order_by(date): ascending, rows of one date in id order.
RECURSIVE InsertByDate(_, _)
InsertByDate(sorted, r) ==
    IF sorted = <<>> THEN <<r>>
    ELSE IF Head(sorted).date <= r.date THEN <<Head(sorted)>> \o InsertByDate(Tail(sorted), r)
    ELSE <<r>> \o sorted

RECURSIVE OrderByDate(_)
OrderByDate(rows) ==
    IF rows = <<>> THEN <<>>
    ELSE InsertByDate(OrderByDate(SubSeq(rows, 1, Len(rows) - 1)), rows[Len(rows)])

\* _get_daily_feature_rows
get_daily_feature_rows(dly, user_id, from_date, to_date) ==
    OrderByDate(Filter(dly, user_id, from_date, to_date))

\* The wellbeing scores of a user's RiskScore rows dated in [from_date,
\* to_date], ordered by date.
ScoresBetween(rsk, user_id, from_date, to_date) ==
    LET rows == OrderByDate(Filter(rsk, user_id, from_date, to_date))
    IN  [i \in 1..Len(rows) |-> rows[i].wellbeing_score]

\* sum(1 for k in WEIGHTS if day_row.get(k) is None)
MissingCount(day_row) == Cardinality({k \in Signals : day_row[k] = NULL})

\* The rows the baseline of target_date is computed from (drift.py 297-299).
BaselineRows(dly, user_id, target_date, baseline_days) ==
    LET end_baseline == target_date - 1
        start_baseline == end_baseline - (baseline_days + 30)
    IN  get_daily_feature_rows(dly, user_id, start_baseline, end_baseline)

\* The scores compute_risk_for_date hands to _momentum for target_date: those
\* of the rows dated in [target_date - TREND_DAYS, target_date), ordered by
\* date, and the new score.
MomentumScores(rsk, user_id, target_date, wellbeing) ==
    Append(ScoresBetween(rsk, user_id, target_date - TREND_DAYS, target_date - 1),
           wellbeing)

\* A RiskScore row that stands for None.
NoScore ==
    [user_id |-> "None", date |-> 0, wellbeing_score |-> 0, status |-> "None",
     momentum |-> "None", confidence |-> "None", drivers |-> <<>>]

\* The score compute_risk_for_date gives a day's row: the first-day average when
\* the baseline has no signal, else the weighted deviation from the baseline.
DayScore(day_row, baseline, baseline_days) ==
    IF DOMAIN baseline = {}
    THEN The({ [path |-> "first_day", wellbeing |-> fd.wellbeing, status |-> fd.status,
                confidence |-> "low", drivers |-> fd.drivers] :
               fd \in {first_day_wellbeing(day_row)} })
    ELSE The({ The({ [path |-> "baseline", wellbeing |-> ws.wellbeing, status |-> ws.status,
                      confidence |-> confidence(baseline_days, MissingCount(day_row)),
                      drivers |-> wr.drivers] :
                     ws \in {wellbeing_and_status(wr.raw_risk)} }) :
               wr \in {weighted_risk(day_row, baseline)} })

\* A compute_risk_for_date whose score is drawn half way to the latest earlier
\* score in the store.
ComputeRead_feedback(dly, rsk, user_id, target_date, baseline_days) ==
    The({ IF at = 0 THEN [found |-> FALSE, path |-> "none", row |-> NoScore, existing |-> 0]
          ELSE The({ [found |-> TRUE,
                      path |-> s.path,
                      row |-> [user_id |-> user_id, date |-> target_date,
                               wellbeing_score |->
                                   IF prev = <<>> THEN s.wellbeing
                                   ELSE (s.wellbeing + prev[Len(prev)]) \div 2,
                               status |-> s.status,
                               momentum |-> momentum(Append(prev, s.wellbeing)),
                               confidence |-> s.confidence,
                               drivers |-> s.drivers],
                      existing |-> First(rsk, user_id, target_date)] :
                     s \in {The({DayScore(day_row, baseline, baseline_days) :
                                 day_row \in {dly[at]},
                                 baseline \in {baseline_stats(
                                     BaselineRows(dly, user_id, target_date, baseline_days),
                                     baseline_days)}})},
                     prev \in {ScoresBetween(rsk, user_id, target_date - TREND_DAYS,
                                             target_date - 1)} }) :
          at \in {First(dly, user_id, target_date)} })

\* compute_risk_for_date up to its query for the existing row: what it will
\* write, and the id (index) of the row it found to update, 0 for none.
ComputeRead(dly, rsk, user_id, target_date, baseline_days) ==
    The({ IF at = 0 THEN [found |-> FALSE, path |-> "none", row |-> NoScore, existing |-> 0]
          ELSE The({ [found |-> TRUE,
                      path |-> s.path,
                      row |-> [user_id |-> user_id, date |-> target_date,
                               wellbeing_score |-> s.wellbeing,
                               status |-> s.status,
                               momentum |-> momentum(MomentumScores(
                                   rsk, user_id, target_date, s.wellbeing)),
                               confidence |-> s.confidence,
                               drivers |-> s.drivers],
                      existing |-> First(rsk, user_id, target_date)] :
                     s \in {The({DayScore(day_row, baseline, baseline_days) :
                                 day_row \in {dly[at]},
                                 baseline \in {baseline_stats(
                                     BaselineRows(dly, user_id, target_date, baseline_days),
                                     baseline_days)}})} }) :
          at \in {First(dly, user_id, target_date)} })

\* A write of compute_risk_for_date that always inserts.
ComputeWrite_insert(rsk, c) == IF ~c.found THEN rsk ELSE Append(rsk, c.row)

\* A write of compute_risk_for_date that leaves a row it finds as it is.
ComputeWrite_keep(rsk, c) ==
    IF ~c.found THEN rsk
    ELSE IF c.existing # 0 /\ c.existing <= Len(rsk) THEN rsk
    ELSE Append(rsk, c.row)

\* A write of compute_risk_for_date that gives the new status to every row of
\* the user as well.
ComputeWrite_every(rsk, c) ==
    IF ~c.found THEN rsk
    ELSE LET all == [i \in 1..Len(rsk) |->
                        IF rsk[i].user_id = c.row.user_id
                        THEN [rsk[i] EXCEPT !.status = c.row.status] ELSE rsk[i]]
         IN  IF c.existing # 0 /\ c.existing <= Len(rsk)
             THEN [all EXCEPT ![c.existing] = c.row]
             ELSE Append(all, c.row)

\* The write of compute_risk_for_date: update the row found, else insert.
ComputeWrite(rsk, c) ==
    IF ~c.found THEN rsk
    ELSE IF c.existing # 0 /\ c.existing <= Len(rsk)
    THEN [rsk EXCEPT ![c.existing] = c.row]
    ELSE Append(rsk, c.row)

\* compute_risk_for_date, run without interruption: the new risk_scores table.
compute_risk_for_date(dly, rsk, user_id, target_date, baseline_days) ==
    ComputeWrite(rsk, ComputeRead(dly, rsk, user_id, target_date, baseline_days))

\* ------------------------------------------------------------- voice strain

\* VOICE_KEYS of engine/voice_features.py.
VOICE_KEYS ==
    << "loudness_sma3_amean", "loudness_sma3_stddevNorm",
       "F0semitoneFrom27.5Hz_sma3nz_amean", "F0semitoneFrom27.5Hz_sma3nz_stddevNorm",
       "jitterLocal_sma3nz_amean", "shimmerLocaldB_sma3nz_amean",
       "HNRdBACF_sma3nz_amean", "spectralFlux_sma3_amean" >>

BASELINE_N == 7

\* base_values of _seed_demo_voice_baseline.  An acoustic feature is counted in
\* thousandths of the magnitude of its seeded neutral value, so every neutral
\* value is 1000 or -1000 (loudness_sma3_amean is -15.0) and the seed's noise,
\* gauss(0, 0.05 * |base|), has a standard deviation of 50.
base_values ==
    [k \in {VOICE_KEYS[i] : i \in 1..Len(VOICE_KEYS)} |->
        IF k = "loudness_sma3_amean" THEN -1000 ELSE 1000]

\* The values of key k in the voice_features of sessions that have it.
RECURSIVE FeatureVals(_, _)
FeatureVals(sessions, k) ==
    IF sessions = <<>> THEN <<>>
    ELSE IF k \in DOMAIN Head(sessions).voice_features
    THEN <<Head(sessions).voice_features[k]>> \o FeatureVals(Tail(sessions), k)
    ELSE FeatureVals(Tail(sessions), k)

\* A baseline_from_sessions that takes a key with a single value.
baseline_from_sessions_single(sessions, keys) ==
    [k \in {key \in {keys[i] : i \in 1..Len(keys)} : Len(FeatureVals(sessions, key)) >= 1} |->
        The({<<MeanU(vals), StdU(vals) + EPS>> : vals \in {FeatureVals(sessions, k)}})]

\* baseline_from_sessions: (mean, std + EPS) in 1/U for the keys with at least
\* 2 values.
baseline_from_sessions(sessions, keys) ==
    [k \in {key \in {keys[i] : i \in 1..Len(keys)} : Len(FeatureVals(sessions, key)) >= 2} |->
        The({<<MeanU(vals), StdU(vals) + EPS>> : vals \in {FeatureVals(sessions, k)}})]

\* The |z| of compute_voice_drift, in 1/ZU, for the keys in current and baseline.
RECURSIVE AbsZFrom(_, _, _, _)
AbsZFrom(i, current, baseline, keys) ==
    IF i > Len(keys) THEN <<>>
    ELSE LET k == keys[i]
             rest == AbsZFrom(i + 1, current, baseline, keys)
         IN  IF k \in DOMAIN current /\ k \in DOMAIN baseline
             THEN <<<<k, Abs(QuotZ(current[k] * U - baseline[k][1],
                                   Max(baseline[k][2], EPS)))>>>> \o rest
             ELSE rest

\* A compute_voice_drift that averages every |z|.
compute_voice_drift_mean_all(current, baseline, keys) ==
    The({ IF zs = <<>> THEN 0 ELSE TDiv(SumContrib(zs), Len(zs)) :
          zs \in {SortDesc(AbsZFrom(1, current, baseline, keys))} })

\* compute_voice_drift: drift_score, the mean of the K = min(4, n) largest |z|,
\* in 1/ZU; 0 when no key is shared.
compute_voice_drift(current, baseline, keys) ==
    The({ IF zs = <<>> THEN 0
          ELSE TDiv(SumContrib(SubSeq(zs, 1, Min(4, Len(zs)))), Min(4, Len(zs))) :
          zs \in {SortDesc(AbsZFrom(1, current, baseline, keys))} })

\* The drivers of compute_voice_drift: the (at most) 3 keys of largest |z|,
\* each with its direction, up for z > 0.
voice_drivers(current, baseline, keys) ==
    The({ [i \in 1..Min(3, Len(zs)) |->
              [key |-> zs[i][1],
               direction |-> IF current[zs[i][1]] * U > baseline[zs[i][1]][1]
                             THEN "up" ELSE "down"]] :
          zs \in {SortDesc(AbsZFrom(1, current, baseline, keys))} })

\* drift_to_level: the 0-100 score int(max(0, min(100, drift / 2 * 100))) and
\* the level.
drift_to_level(drift) ==
    [score |-> Max(0, Min(100, drift \div 2000)),
     level |-> IF drift < 60000 THEN "low"
               ELSE IF drift < 120000 THEN "medium" ELSE "high"]

\* confidence_level
\* A confidence_level whose second gate needs both few sessions and a short
\* recording.
confidence_level_both(baseline_n, duration_s, used_feature_count) ==
    IF baseline_n < 3 \/ duration_s < 6 \/ used_feature_count < 4 THEN "low"
    ELSE IF baseline_n < 7 /\ duration_s < 10 THEN "medium"
    ELSE "high"

confidence_level(baseline_n, duration_s, used_feature_count) ==
    IF baseline_n < 3 \/ duration_s < 6 \/ used_feature_count < 4 THEN "low"
    ELSE IF baseline_n < 7 \/ duration_s < 10 THEN "medium"
    ELSE "high"

\* The label sentiment_from_text gives a compound (hundredths).
SentimentLabel(compound) ==
    IF compound = NULL THEN "None"
    ELSE IF compound >= 5 THEN "positive"
    ELSE IF compound <= -5 THEN "negative" ELSE "neutral"

\* The rows of a user, whatever the date, in id order.
RowsOf(table, user_id) == SelectSeq(table, LAMBDA r : r.user_id = user_id)

\* order_by(date.desc(), id.desc()).limit(n): the n latest rows (here oldest
\* first; every VoiceSession row has voice_features set).
Latest(rows, n) ==
    LET asc == OrderByDate(rows)
    IN  SubSeq(asc, Max(1, Len(asc) - n + 1), Len(asc))

\* ------------------------------------------------------------------- inputs

\* Days run from 1 to MaxDay; the seed reaches back before day 1.
MaxDay == 3

\* Submissions (check-in, typing, voice) made in a run.
MaxCalls == 4

\* Counts the submissions made, to bound the run.
VARIABLES calls

\* CheckinCreate payloads: sleep_hours in tenths of an hour.  The first is the
\* record of the specification's first-day example; no field of the schema is
\* range-checked, so a negative activity_minutes is accepted.
CheckinPayloads ==
    { [mood |-> 8, sleep_hours |-> 75, sleep_quality |-> 4,
       activity_minutes |-> 40, activity_slider |-> NULL],
      [mood |-> 1, sleep_hours |-> 40, sleep_quality |-> 1,
       activity_minutes |-> -30, activity_slider |-> NULL],
      [mood |-> 2, sleep_hours |-> 45, sleep_quality |-> 2,
       activity_minutes |-> NULL, activity_slider |-> NULL] }

\* TypingEventCreate payloads: backspace_ratio in hundredths.
TypingPayloads ==
    { [avg_interval_ms |-> 340, std_interval_ms |-> 60, backspace_ratio |-> 10,
       session_duration_sec |-> 120, fragmentation_count |-> 3, late_night |-> TRUE] }

\* The features extract_egemaps returns for an upload whose every feature is
\* off its neutral value by d.
Features(d) == [k \in DOMAIN base_values |-> base_values[k] + d]

\* Uploads to POST /api/events/voice: whether the content type is audio/*, the
\* duration get_audio_duration_sec reads, the features extract_egemaps returns,
\* and the compound (hundredths) get_speech_sentiment_only returns, NULL when
\* analyze_speech is off or the transcription fails.
VoicePayloads ==
    { [audio |-> TRUE, duration_s |-> 12, features |-> Features(60),
       speech_sentiment |-> -50] }

\* Outcomes of the seed's random draws: the offset random.gauss gives feature
\* number k of seeded session i (offsets[((i + k) % 7) + 1]) and the duration.
SeedNoise ==
    { [offsets |-> <<-50, 30, 0, 60, -20, 40, -60>>, duration_sec |-> 12],
      [offsets |-> <<10, -10, 20, -20, 0, 30, -30>>, duration_sec |-> 13] }

\* The outcome drawn where the requests that follow are what is explored.
WideNoise == {n \in SeedNoise : n.duration_sec = 12}

\* The org users modelled, of the ten seed.py seeds (org_user_0..9): one seeded
\* "Stable" and one seeded "High".
OrgIndexes == <<0, 8>>

OrgUid(i) ==
    CASE i = 0 -> "org_user_0" [] i = 8 -> "org_user_8"

OrgUids == {OrgUid(OrgIndexes[j]) : j \in 1..Len(OrgIndexes)}

\* range(14) of _seed_org_daily_and_risk.
SEED_DAYS == 14

\* get_firebase_uid: the user of every request.
Uid == IF firebase THEN "u1" ELSE "demo"

\* ------------------------------------------------------------------- actions

\* compute_risk_for_date invocations in flight between their query for the
\* existing row and their commit (empty whenever handlers run one at a time).
VARIABLES pend

\* The argument and the result of a pure function of the engine, applied on
\* its own.
VARIABLES fn

\* The interventions table: rows (user_id, date, intervention_id, title,
\* completed), in id order.
VARIABLES interventions

vars == <<today, users, daily, typing, voice, risk, firebase, last, calls, pend, fn, interventions>>

\* The record of a call: the operation, its user and date, whether it gave a
\* score, on which path, the row (or rows) it returned, and in more what else
\* its response carries.
RetMore(op, user_id, date, found, path, row, more) ==
    [op |-> op, user |-> user_id, date |-> date, found |-> found, path |-> path,
     row |-> row, more |-> more]

Ret(op, user_id, date, found, path, row) ==
    RetMore(op, user_id, date, found, path, row, <<>>)

NoFn == [op |-> "none", in |-> <<>>, out |-> 0]

Init ==
    /\ today = 1
    /\ users = {}
    /\ daily = <<>>
    /\ typing = <<>>
    /\ voice = <<>>
    /\ risk = <<>>
    /\ firebase \in BOOLEAN
    /\ last = Ret("init", "None", 0, FALSE, "none", NoScore)
    /\ calls = 0
    /\ pend = <<>>
    /\ fn = NoFn
    /\ interventions = <<>>

\* _get_or_create_user
get_or_create_user(us, user_id) ==
    IF \E u \in us : u.id = user_id THEN us
    ELSE us \cup {[id |-> user_id, is_org_user |-> FALSE]}

\* The RiskScore row _seed_org_daily_and_risk gives org user i on a date.
SeedRow(i, date) ==
    LET s == IF i < 5 THEN "Stable" ELSE IF i < 8 THEN "Watch" ELSE "High"
        score == IF s = "Stable" THEN 75 + (i % 15)
                 ELSE IF s = "Watch" THEN 50 + (i % 15) ELSE 30 + (i % 15)
    IN  [user_id |-> OrgUid(i), date |-> date, wellbeing_score |-> score * 10,
         status |-> s, momentum |-> "stable", confidence |-> "high", drivers |-> <<>>]

\* The loops of _seed_org_daily_and_risk from (user j of OrgIndexes, day d) on.
RECURSIVE SeedRisk(_, _, _, _)
SeedRisk(rsk, tdy, j, d) ==
    IF j > Len(OrgIndexes) THEN rsk
    ELSE IF d >= SEED_DAYS THEN SeedRisk(rsk, tdy, j + 1, 0)
    ELSE LET i == OrgIndexes[j]
             dte == tdy - d
         IN  IF First(rsk, OrgUid(i), dte) # 0 THEN SeedRisk(rsk, tdy, j, d + 1)
             ELSE SeedRisk(Append(rsk, SeedRow(i, dte)), tdy, j, d + 1)

\* The loop of _seed_demo_voice_baseline from session i on, to_create sessions
\* in all.
RECURSIVE SeedVoice(_, _, _, _, _)
SeedVoice(vce, tdy, noise, to_create, i) ==
    IF i >= to_create THEN vce
    ELSE LET dte == tdy - (i + 1)
             features == [k \in DOMAIN base_values |->
                            LET n == CHOOSE n \in 1..Len(VOICE_KEYS) : VOICE_KEYS[n] = k
                            IN  base_values[k] + noise.offsets[((i + n) % 7) + 1]]
             row == [user_id |-> "demo", date |-> dte,
                     duration_sec |-> noise.duration_sec,
                     voice_features |-> features, voice_strain_score |-> 0,
                     voice_strain_level |-> "low",
                     voice_confidence |-> IF to_create - i < 4 THEN "low" ELSE "medium",
                     speech_sentiment_compound |-> NULL,
                     speech_sentiment_label |-> "None"]
         IN  IF First(vce, "demo", dte) # 0 THEN SeedVoice(vce, tdy, noise, to_create, i + 1)
             ELSE SeedVoice(Append(vce, row), tdy, noise, to_create, i + 1)

\* run_seed, when the application starts (main.py lifespan).
RunSeed(noise) ==
    /\ users = {}
    /\ users' = {[id |-> "demo", is_org_user |-> FALSE]}
                \cup {[id |-> u, is_org_user |-> TRUE] : u \in OrgUids}
    /\ LET existing == Len(RowsOf(voice, "demo"))
       IN  voice' = IF existing >= BASELINE_N THEN voice
                    ELSE SeedVoice(voice, today, noise, BASELINE_N - existing, 0)
    /\ risk' = SeedRisk(risk, today, 1, 0)
    /\ last' = Ret("seed", "None", today, FALSE, "none", NoScore)
    /\ UNCHANGED <<today, daily, typing, firebase, calls, pend, fn, interventions>>

\* The application serves requests once it has started (main.py lifespan).
Started == \E u \in users : u.id = "demo"

\* date.today() moves on.
Tick ==
    /\ Started
    /\ today < MaxDay
    /\ today' = today + 1
    /\ last' = Ret("tick", "None", today + 1, FALSE, "none", NoScore)
    /\ UNCHANGED <<users, daily, typing, voice, risk, firebase, calls, pend, fn, interventions>>

\* The call record of a handler that ends in compute_risk_for_date, c what the
\* call computed.
ComputeRet(op, c, user_id, date) == Ret(op, user_id, date, c.found, c.path, c.row)

\* An upsert of submit_checkin that writes a fresh row over the day's.
CheckinUpsert_replace(dly, payload, user_id, date) ==
    LET at == First(dly, user_id, date)
        new == [EmptyDaily(user_id, date) EXCEPT
                   !.sleep_hours = payload.sleep_hours,
                   !.sleep_quality = payload.sleep_quality,
                   !.activity_minutes = payload.activity_minutes,
                   !.mood_value = payload.mood]
    IN  IF at = 0 THEN Append(dly, new) ELSE [dly EXCEPT ![at] = new]

\* The DailySummary upsert of submit_checkin.
CheckinUpsert(dly, payload, user_id, date) ==
    LET activity == IF payload.activity_minutes = NULL /\ payload.activity_slider # NULL
                    THEN TDiv(payload.activity_slider * 180, 100)
                    ELSE payload.activity_minutes
        at == First(dly, user_id, date)
        old == IF at = 0 THEN EmptyDaily(user_id, date) ELSE dly[at]
        new == [old EXCEPT !.sleep_hours = payload.sleep_hours,
                           !.sleep_quality = payload.sleep_quality,
                           !.activity_minutes = activity,
                           !.mood_value = payload.mood]
    IN  IF at = 0 THEN Append(dly, new) ELSE [dly EXCEPT ![at] = new]

\* POST /api/checkin
submit_checkin(payload) ==
    /\ Started
    /\ calls < MaxCalls
    /\ calls' = calls + 1
    /\ users' = get_or_create_user(users, Uid)
    /\ \E dly \in {CheckinUpsert(daily, payload, Uid, today)} :
       \E c \in {ComputeRead(dly, risk, Uid, today, DEFAULT_BASELINE_DAYS)} :
           /\ daily' = dly
           /\ risk' = ComputeWrite(risk, c)
           /\ last' = ComputeRet("checkin", c, Uid, today)
    /\ UNCHANGED <<today, typing, voice, firebase, pend, fn, interventions>>

\* The typing sessions of a user on a date.
SessionsOf(table, user_id, date) ==
    SelectSeq(table, LAMBDA r : r.user_id = user_id /\ r.date = date)

RECURSIVE SumField(_, _)
SumField(rows, f) == IF rows = <<>> THEN 0 ELSE Head(rows)[f] + SumField(Tail(rows), f)

\* POST /api/events/typing
submit_typing_event(payload) ==
    /\ Started
    /\ calls < MaxCalls
    /\ calls' = calls + 1
    /\ users' = get_or_create_user(users, Uid)
    /\ \E sessions \in {Append(typing, [user_id |-> Uid, date |-> today,
                           avg_interval_ms |-> payload.avg_interval_ms,
                           std_interval_ms |-> payload.std_interval_ms,
                           backspace_ratio |-> payload.backspace_ratio,
                           session_duration_sec |-> payload.session_duration_sec,
                           fragmentation_count |-> payload.fragmentation_count,
                           late_night |-> payload.late_night])} :
       \E summaries \in {SessionsOf(sessions, Uid, today)} :
       \E at \in {First(daily, Uid, today)} :
       LET n == Len(summaries)
           late == \E i \in 1..n : summaries[i].late_night
           old == IF at = 0 THEN EmptyDaily(Uid, today) ELSE daily[at]
           new == [old EXCEPT
                     !.typing_avg_interval_ms = TDiv(SumField(summaries, "avg_interval_ms"), n),
                     !.typing_std_ms = TDiv(SumField(summaries, "std_interval_ms"), n),
                     !.typing_backspace_ratio = TDiv(SumField(summaries, "backspace_ratio"), n),
                     !.typing_fragmentation = SumField(summaries, "fragmentation_count"),
                     !.typing_late_night = IF late THEN "True" ELSE "False"]
       IN  \E dly \in {IF at = 0 THEN Append(daily, new) ELSE [daily EXCEPT ![at] = new]} :
           \E c \in {ComputeRead(dly, risk, Uid, today, DEFAULT_BASELINE_DAYS)} :
               /\ typing' = sessions
               /\ daily' = dly
               /\ risk' = ComputeWrite(risk, c)
               /\ last' = ComputeRet("typing", c, Uid, today)
    /\ UNCHANGED <<today, voice, firebase, pend, fn, interventions>>

\* [k for k in VOICE_KEYS if k in features]
used_keys(features) == SelectSeq(VOICE_KEYS, LAMBDA k : k \in DOMAIN features)

\* What submit_voice_event derives from an accepted upload and the user's
\* sessions: score, level, confidence, drivers.
VoiceResult(vce, user_id, payload) ==
    The({ The({ IF DOMAIN baseline = {}
                THEN [score |-> 0, level |-> "low", conf |-> "low", drivers |-> <<>>]
                ELSE The({ [score |-> lv.score, level |-> lv.level,
                            conf |-> confidence_level(Len(baseline_sessions) + 1,
                                                      payload.duration_s,
                                                      Len(used_keys(payload.features))),
                            drivers |-> voice_drivers(payload.features, baseline,
                                                      VOICE_KEYS)] :
                           lv \in {drift_to_level(compute_voice_drift(
                                       payload.features, baseline, VOICE_KEYS))} }) :
                baseline \in {baseline_from_sessions(baseline_sessions, VOICE_KEYS)} }) :
          baseline_sessions \in {Latest(RowsOf(vce, user_id), BASELINE_N)} })

\* HTTP status of submit_voice_event: 400 for a non-audio upload, 422 when no
\* or fewer than 4 features are extracted.
VoiceStatus(payload) ==
    IF ~payload.audio THEN 400
    ELSE IF DOMAIN payload.features = {} \/ Len(used_keys(payload.features)) < 4 THEN 422
    ELSE 200

\* POST /api/events/voice
submit_voice_event(payload) ==
    /\ Started
    /\ calls < MaxCalls
    /\ calls' = calls + 1
    /\ users' = get_or_create_user(users, Uid)
    /\ IF VoiceStatus(payload) # 200
       THEN /\ last' = Ret("voice_error", Uid, today, FALSE, "none", NoScore)
            /\ UNCHANGED <<voice, daily, risk>>
       ELSE \E v \in {VoiceResult(voice, Uid, payload)} :
            \E at \in {First(daily, Uid, today)} :
            LET session == [user_id |-> Uid, date |-> today,
                            duration_sec |-> payload.duration_s,
                            voice_features |-> payload.features,
                            voice_strain_score |-> v.score,
                            voice_strain_level |-> v.level,
                            voice_confidence |-> v.conf,
                            speech_sentiment_compound |-> payload.speech_sentiment,
                            speech_sentiment_label |->
                                SentimentLabel(payload.speech_sentiment)]
                old == IF at = 0 THEN EmptyDaily(Uid, today) ELSE daily[at]
                new == [old EXCEPT
                          !.voice_strain_score = v.score,
                          !.voice_strain_level = v.level,
                          !.voice_confidence = v.conf,
                          !.speech_sentiment_compound = payload.speech_sentiment,
                          !.speech_sentiment_label = SentimentLabel(payload.speech_sentiment)]
            IN  \E dly \in {IF at = 0 THEN Append(daily, new) ELSE [daily EXCEPT ![at] = new]} :
                \E c \in {ComputeRead(dly, risk, Uid, today, DEFAULT_BASELINE_DAYS)} :
                    /\ voice' = Append(voice, session)
                    /\ daily' = dly
                    /\ risk' = ComputeWrite(risk, c)
                    /\ last' = RetMore("voice", Uid, today, c.found, c.path, c.row,
                                       [voice_strain_score |-> v.score,
                                        voice_strain_level |-> v.level,
                                        voice_confidence |-> v.conf,
                                        drivers |-> v.drivers])
    /\ UNCHANGED <<today, typing, firebase, pend, fn, interventions>>

\* POST /api/checkin that ends after its commit of the DailySummary
\* (checkin.py 26-52): the server stops before compute_risk_for_date runs.
submit_checkin_stopped(payload) ==
    /\ Started
    /\ calls < MaxCalls
    /\ calls' = calls + 1
    /\ users' = get_or_create_user(users, Uid)
    /\ daily' = CheckinUpsert(daily, payload, Uid, today)
    /\ last' = Ret("checkin_stopped", Uid, today, FALSE, "none", NoScore)
    /\ UNCHANGED <<today, typing, voice, risk, firebase, pend, fn, interventions>>

\* A direct call of compute_risk_for_date(user, date).
ComputeRisk(user_id, date) ==
    /\ Started
    /\ \E c \in {ComputeRead(daily, risk, user_id, date, DEFAULT_BASELINE_DAYS)} :
           /\ risk' = ComputeWrite(risk, c)
           /\ last' = ComputeRet("compute", c, user_id, date)
    /\ UNCHANGED <<today, users, daily, typing, voice, firebase, calls, pend, fn, interventions>>

\* A get_today_score that does not ask for today's DailySummary first.
TodayScore_unguarded(dly, rsk, user_id, tdy) ==
    The({ IF at # 0
          THEN [risk |-> rsk, found |-> TRUE, path |-> "stored", r |-> rsk[at]]
          ELSE The({ [risk |-> ComputeWrite(rsk, c), found |-> c.found /\ c.row.date = tdy,
                      path |-> c.path, r |-> c.row] :
                     c \in {ComputeRead(dly, rsk, user_id, tdy, DEFAULT_BASELINE_DAYS)} }) :
          at \in {First(rsk, user_id, tdy)} })

\* get_today_score up to the row it reports (drift.py 386-406): the table it
\* leaves and the row, NoScore for None.
TodayScore(dly, rsk, user_id, tdy) ==
    IF First(dly, user_id, tdy) = 0
    THEN [risk |-> rsk, found |-> FALSE, path |-> "none", r |-> NoScore]
    ELSE The({ IF at # 0
               THEN [risk |-> rsk, found |-> TRUE, path |-> "stored", r |-> rsk[at]]
               ELSE The({ [risk |-> ComputeWrite(rsk, c),
                           found |-> c.found /\ c.row.date = tdy,
                           path |-> c.path, r |-> c.row] :
                          c \in {ComputeRead(dly, rsk, user_id, tdy, DEFAULT_BASELINE_DAYS)} }) :
               at \in {First(rsk, user_id, tdy)} })

\* round(num / den, 1) in tenths for num / den counted in tenths, num >= 0,
\* den > 0; ties go to the even tenth.
RoundDiv(num, den) ==
    LET lo == num \div den
        r == num % den
    IN  IF 2 * r > den THEN lo + 1
        ELSE IF 2 * r < den THEN lo
        ELSE IF lo % 2 = 0 THEN lo ELSE lo + 1

\* sum(abs(c[1]) for c in contributions)
RECURSIVE SumAbsContrib(_)
SumAbsContrib(cs) ==
    IF cs = <<>> THEN 0 ELSE Abs(Head(cs)[2]) + SumAbsContrib(Tail(cs))

\* abs(contrib) / total_contrib_abs in 1/ZU, both scaled down first to keep
\* the division within the integers at hand.
ShareOf(contrib, total_contrib_abs) ==
    LET k == (total_contrib_abs \div 10000000) + 1
    IN  QuotZ(Abs(contrib) \div k, Max(1, total_contrib_abs \div k))

\* The entries get_today_score lists for contributions[:3] (drift.py 506-517):
\* direction and contribution (tenths of a point).  exceeds is
\* abs(score_delta) > 0.1.
RECURSIVE ContributionEntries(_, _, _, _)
ContributionEntries(cs, total_contrib_abs, score_delta, exceeds) ==
    IF cs = <<>> THEN <<>>
    ELSE LET contrib == Head(cs)[2]
             rest == ContributionEntries(Tail(cs), total_contrib_abs, score_delta, exceeds)
         IN  IF Abs(contrib) > 100000
             THEN <<[key |-> Head(cs)[1],
                     direction |-> IF contrib > 0 THEN "up" ELSE "down",
                     contribution |->
                         IF exceeds
                         THEN RoundDiv(ShareOf(contrib, total_contrib_abs)
                                           * Abs(score_delta), ZU)
                         ELSE RoundDiv(Abs(contrib), 100000)]>> \o rest
             ELSE rest

\* driver_contributions of get_today_score (drift.py 467-517) for today's row
\* r and the scores of the window, oldest first.  The difference of two
\* scores one tenth apart is a float a little above or below 0.1: fuzz says
\* which.
driver_contributions(dly, user_id, tdy, r, recent_scores, fuzz) ==
    IF r.drivers = <<>> \/ First(dly, user_id, tdy) = 0 THEN <<>>
    ELSE The({ IF DOMAIN baseline = {} THEN <<>>
               ELSE The({ IF SumAbsContrib(contributions) = 0 THEN <<>>
                          ELSE The({ ContributionEntries(
                                         SubSeq(contributions, 1, Min(3, Len(contributions))),
                                         SumAbsContrib(contributions), score_delta,
                                         Abs(score_delta) > 1
                                             \/ (Abs(score_delta) = 1 /\ fuzz)) :
                                     score_delta \in
                                         {r.wellbeing_score -
                                          (IF Len(recent_scores) >= 2
                                           THEN recent_scores[Len(recent_scores) - 1]
                                           ELSE r.wellbeing_score)} }) :
                          contributions \in
                              {weighted_risk(dly[First(dly, user_id, tdy)],
                                             baseline).contributions} }) :
               baseline \in {baseline_stats(
                                 BaselineRows(dly, user_id, tdy, DEFAULT_BASELINE_DAYS),
                                 DEFAULT_BASELINE_DAYS)} })

\* GET /api/score/today: the call's record carries in more the momentum label
\* and strength and the driver_contributions of the response.
get_today_score(user_id) ==
    /\ Started
    /\ \E t \in {TodayScore(daily, risk, user_id, today)}, fuzz \in BOOLEAN :
       \E recent_scores \in {ScoresBetween(t.risk, user_id, today - TREND_DAYS, today)} :
           /\ risk' = t.risk
           /\ last' = RetMore("today_score", user_id, today, t.found, t.path, t.r,
                              IF t.found
                              THEN [momentum |->
                                        today_momentum(t.r.status, t.r.wellbeing_score,
                                                       recent_scores),
                                    driver_contributions |->
                                        driver_contributions(daily, user_id, today, t.r,
                                                             recent_scores, fuzz)]
                              ELSE <<>>)
    /\ UNCHANGED <<today, users, daily, typing, voice, firebase, calls, pend, fn, interventions>>

\* One turn of the loop of get_trends, for the date dte: the row reported (none
\* when the date has no row and compute_risk_for_date gives None), the table
\* left, and the date when compute_risk_for_date wrote its row.
TrendsStep(dly, rsk, rows, user_id, dte) ==
    The({ IF at # 0 THEN [risk |-> rsk, r |-> <<rows[at]>>, computed |-> <<>>]
          ELSE The({ [risk |-> ComputeWrite(rsk, c),
                      r |-> IF c.found THEN <<c.row>> ELSE <<>>,
                      computed |-> IF c.found THEN <<dte>> ELSE <<>>] :
                     c \in {ComputeRead(dly, rsk, user_id, dte, DEFAULT_BASELINE_DAYS)} }) :
          at \in {First(rows, user_id, dte)} })

\* A loop of get_trends that visits the dates from the latest to the earliest.
RECURSIVE TrendsFill_descending(_, _, _, _, _, _)
TrendsFill_descending(dly, rsk, rows, user_id, dte, end) ==
    IF dte > end THEN [risk |-> rsk, data |-> <<>>, computed |-> <<>>]
    ELSE The({ The({ [risk |-> rest.risk, data |-> rest.data \o step.r,
                      computed |-> step.computed \o rest.computed] :
                     rest \in {TrendsFill_descending(dly, step.risk, rows, user_id,
                                                     dte, end - 1)} }) :
               step \in {TrendsStep(dly, rsk, rows, user_id, end)} })

\* The loop of get_trends over the dates dte..end: rows is the query made
\* before the loop; gives the table left, the rows reported and the dates
\* computed, in the order of the loop.
RECURSIVE TrendsFill(_, _, _, _, _, _)
TrendsFill(dly, rsk, rows, user_id, dte, end) ==
    IF dte > end THEN [risk |-> rsk, data |-> <<>>, computed |-> <<>>]
    ELSE The({ The({ [risk |-> rest.risk, data |-> step.r \o rest.data,
                      computed |-> step.computed \o rest.computed] :
                     rest \in {TrendsFill(dly, step.risk, rows, user_id, dte + 1, end)} }) :
               step \in {TrendsStep(dly, rsk, rows, user_id, dte)} })

\* The last n elements of a sequence (all of it when shorter): seq[-n:].
LastN(seq, n) == SubSeq(seq, Max(1, Len(seq) - n + 1), Len(seq))

\* intercept + slope * (len(recent_scores) - 1 + i) for the line np.polyfit
\* fits to recent_scores, clamped to [0, 100] and rounded to 1 decimal; in
\* tenths, as the scores.  The value is num / (n * den) tenths.
ProjectedScore(recent_scores, i) ==
    The({ The({ Round1(Max(0, Min(1000 * n * den, num)), 10 * n * den) :
                num \in {SumSeq(recent_scores) * den
                         + SlopeNum(recent_scores)
                           * (n * (n - 1 + i) - ((n * (n - 1)) \div 2))} }) :
          n \in {Len(recent_scores)}, den \in {SlopeDen(recent_scores)} })

\* A projection of get_trends fitted over all the scores of the range.
Projection_all(all_scores, last_date) ==
    IF Len(all_scores) < 2 THEN <<>>
    ELSE [i \in 1..5 |-> [date |-> last_date + i,
                          projected_score |-> ProjectedScore(all_scores, i)]]

\* The projection of get_trends (drift.py 597-619): all_scores the scores
\* of the rows reported, last_date the date of the last of them.
Projection(all_scores, last_date) ==
    IF Len(all_scores) < 2 THEN <<>>
    ELSE [i \in 1..5 |-> [date |-> last_date + i,
                          projected_score |-> ProjectedScore(LastN(all_scores, 7), i)]]

\* GET /api/score/trends?days=: the rows reported stand in last.row, the
\* projection and the dates computed in last.more.
get_trends(user_id, days) ==
    /\ Started
    /\ \E rows \in {OrderByDate(Filter(risk, user_id, today - (days - 1), today))} :
       \E t \in {TrendsFill(daily, risk, rows, user_id, today - (days - 1), today)} :
           /\ risk' = t.risk
           /\ last' = RetMore("trends", user_id, today, t.data # <<>>, "none", t.data,
                              [projection |->
                                   IF t.data = <<>> THEN <<>>
                                   ELSE Projection(
                                            [i \in 1..Len(t.data) |-> t.data[i].wellbeing_score],
                                            t.data[Len(t.data)].date),
                               computed |-> t.computed])
    /\ UNCHANGED <<today, users, daily, typing, voice, firebase, calls, pend, fn, interventions>>

\* The users a call of the engine is made for.
Callers == {Uid, "org_user_0"}

\* The days a trends request asks for (14 is the default).
TrendsDays == {14}

Next ==
    \/ \E noise \in WideNoise : RunSeed(noise)
    \/ Tick
    \/ \E payload \in CheckinPayloads : submit_checkin(payload)
    \/ \E payload \in TypingPayloads : submit_typing_event(payload)
    \/ \E payload \in VoicePayloads : submit_voice_event(payload)
    \/ ComputeRisk(Uid, today)
    \/ \E u \in Callers : get_today_score(u)
    \/ \E days \in TrendsDays : get_trends(Uid, days)

Spec == Init /\ [][Next]_vars

\* ------------------------------------------------------------ voice uploads

\* Uploads to POST /api/events/voice besides: one that is no audio, one no
\* feature is extracted from, one with 3 features, one with 4 features far
\* off neutral and too short for more than low confidence, one at neutral,
\* one of 8 seconds.
VoiceUploads ==
    VoicePayloads \cup
    { [audio |-> FALSE, duration_s |-> 12, features |-> Features(60),
       speech_sentiment |-> NULL],
      [audio |-> TRUE, duration_s |-> 0, features |-> <<>>, speech_sentiment |-> NULL],
      [audio |-> TRUE, duration_s |-> 12,
       features |-> [k \in {VOICE_KEYS[i] : i \in 1..3} |-> base_values[k] + 200],
       speech_sentiment |-> NULL],
      [audio |-> TRUE, duration_s |-> 5,
       features |-> [k \in {VOICE_KEYS[i] : i \in 1..4} |-> base_values[k] + 200],
       speech_sentiment |-> NULL],
      [audio |-> TRUE, duration_s |-> 12, features |-> Features(0),
       speech_sentiment |-> 30],
      [audio |-> TRUE, duration_s |-> 8, features |-> Features(30),
       speech_sentiment |-> NULL] }

NextVoice ==
    \/ \E noise \in SeedNoise : RunSeed(noise)
    \/ Tick
    \/ \E payload \in VoiceUploads : submit_voice_event(payload)

SpecVoice == Init /\ [][NextVoice]_vars

\* ------------------------------------------------------ days left unscored

\* A day's check-in whose request ended before the score was computed leaves a
\* DailySummary without a RiskScore; get_trends computes such days later.
NextBackfill ==
    \/ \E noise \in WideNoise : RunSeed(noise)
    \/ Tick
    \/ \E payload \in CheckinPayloads : submit_checkin_stopped(payload)
    \/ \E payload \in CheckinPayloads : submit_checkin(payload)
    \/ \E u \in Callers, days \in TrendsDays : get_trends(u, days)

SpecBackfill == Init /\ [][NextBackfill]_vars

\* ------------------------------------------------------------ interventions

\* ACTIONS_BY_DRIVER.get(d), "None" for a driver it has no action for.
ACTIONS_BY_DRIVER(d) ==
    CASE d = "sleep_hours" -> "Pick one night for a hard cutoff, 30 minutes earlier."
      [] d = "sleep_quality" -> "Wind down 20 minutes before bed. No screens."
      [] d = "activity_minutes" -> "5-minute walk."
      [] d = "mood_value" -> "3-minute brain dump prompt."
      [] d \in {"typing_avg_interval_ms", "typing_std_ms", "typing_backspace_ratio",
                "typing_fragmentation"} -> "60-second breathing reset."
      [] d = "voice_strain_score" -> "Take a brief vocal rest or drink water."
      [] OTHER -> "None"

\* The loop of get_actions_for_drivers over drivers[:3], out the actions so far.
RECURSIVE ActionsFrom(_, _)
ActionsFrom(drivers, out) ==
    IF drivers = <<>> THEN out
    ELSE LET action == ACTIONS_BY_DRIVER(Head(drivers))
         IN  IF action # "None" /\ \A i \in 1..Len(out) : out[i] # action
             THEN ActionsFrom(Tail(drivers), Append(out, action))
             ELSE ActionsFrom(Tail(drivers), out)

get_actions_for_drivers(drivers) ==
    LET out == ActionsFrom(SubSeq(drivers, 1, Min(3, Len(drivers))), <<>>)
        some == IF out = <<>> THEN <<"Take a short break when you can.">> ELSE out
    IN  SubSeq(some, 1, Min(2, Len(some)))

\* f"ai_{action_hash}_{i}": the md5 prefix of an action stands as the action
\* itself (the actions at hand have different ones), i counts from 0.
InterventionId(action, i) == <<"ai", action, i>>

\* by_key.get(iid): the place of the last of the rows that has the id, 0 for
\* none.
RECURSIVE KeyAt(_, _, _, _, _)
KeyAt(ivs, user_id, tdy, iid, i) ==
    IF i = 0 THEN 0
    ELSE IF ivs[i].user_id = user_id /\ ivs[i].date = tdy /\ ivs[i].intervention_id = iid
    THEN i
    ELSE KeyAt(ivs, user_id, tdy, iid, i - 1)

\* The loop of get_today_interventions over intervention_ids from n on: the
\* table and the result so far.  The rows are looked up among those the
\* table had when the function queried it (the first existing of ivs).
RECURSIVE InterventionLoop(_, _, _, _, _, _, _)
InterventionLoop(ivs, existing, result, intervention_ids, user_id, tdy, n) ==
    IF n > Len(intervention_ids) THEN [table |-> ivs, result |-> result]
    ELSE LET iid == intervention_ids[n][1]
             title == intervention_ids[n][2]
             at == KeyAt(ivs, user_id, tdy, iid, existing)
         IN  IF at # 0
             THEN InterventionLoop([ivs EXCEPT ![at].title = title], existing,
                      Append(result, [intervention_id |-> iid, title |-> title,
                                      completed |-> ivs[at].completed]),
                      intervention_ids, user_id, tdy, n + 1)
             ELSE InterventionLoop(
                      Append(ivs, [user_id |-> user_id, date |-> tdy,
                                   intervention_id |-> iid, title |-> title,
                                   completed |-> FALSE]),
                      existing,
                      Append(result, [intervention_id |-> iid, title |-> title,
                                      completed |-> FALSE]),
                      intervention_ids, user_id, tdy, n + 1)

\* The (iid, action) pairs get_today_interventions makes of its arguments.
InterventionIds(drivers, selected_interventions) ==
    LET actions == IF selected_interventions # <<>> THEN selected_interventions
                   ELSE get_actions_for_drivers(drivers)
        ids == [i \in 1..Min(3, Len(actions)) |->
                   <<InterventionId(actions[i], i - 1), actions[i]>>]
    IN  IF ids = <<>> THEN <<<<"general", "Take a short break when you can.">>>> ELSE ids

\* A get_today_interventions that stores a row it finds as not completed.
get_today_interventions_reset(ivs, user_id, tdy, drivers, selected_interventions) ==
    The({ [table |-> [i \in 1..Len(l.table) |->
                         IF \E j \in 1..Len(l.result) :
                                /\ l.table[i].intervention_id = l.result[j].intervention_id
                                /\ l.table[i].user_id = user_id /\ l.table[i].date = tdy
                         THEN [l.table[i] EXCEPT !.completed = FALSE]
                         ELSE l.table[i]],
           result |-> l.result] :
          l \in {InterventionLoop(ivs, Len(ivs), <<>>,
                                  InterventionIds(drivers, selected_interventions),
                                  user_id, tdy, 1)} })

\* get_today_interventions: the table it leaves and the list it returns.
get_today_interventions(ivs, user_id, tdy, drivers, selected_interventions) ==
    InterventionLoop(ivs, Len(ivs), <<>>,
                     InterventionIds(drivers, selected_interventions), user_id, tdy, 1)

\* What select_interventions returns besides the driver-based actions (its
\* result without a client or on an error): 3 or 2 of ALL_INTERVENTIONS.
Selections ==
    { <<"5-minute walk around the block.",
        "60-second breathing reset: inhale 4, hold 4, exhale 4.",
        "Name 3 things you're grateful for today.">>,
      <<"60-second breathing reset: inhale 4, hold 4, exhale 4.",
        "5-minute walk around the block.">> }

\* GET /api/interventions/today
interventions_today(selection) ==
    /\ Started
    /\ calls < MaxCalls
    /\ calls' = calls + 1
    /\ \E t \in {TodayScore(daily, risk, Uid, today)} :
       \E drivers \in {IF t.found THEN t.r.drivers ELSE <<>>} :
       \E selected \in {IF selection = <<>> THEN get_actions_for_drivers(drivers)
                        ELSE selection} :
       \E g \in {get_today_interventions(interventions, Uid, today, drivers, selected)} :
           /\ risk' = t.risk
           /\ interventions' = g.table
           /\ last' = RetMore("interventions", Uid, today, TRUE, "none", NoScore,
                              [actions |-> selected, result |-> g.result])
    /\ UNCHANGED <<today, users, daily, typing, voice, firebase, pend, fn>>

\* complete_intervention: the place of the first row of (user, id, date), 0
\* for none.
RECURSIVE FirstIntervention(_, _, _, _, _)
FirstIntervention(ivs, user_id, iid, dte, i) ==
    IF i > Len(ivs) THEN 0
    ELSE IF ivs[i].user_id = user_id /\ ivs[i].intervention_id = iid /\ ivs[i].date = dte
    THEN i
    ELSE FirstIntervention(ivs, user_id, iid, dte, i + 1)

complete_intervention(ivs, user_id, iid, completion_date) ==
    LET at == FirstIntervention(ivs, user_id, iid, completion_date, 1)
    IN  IF at = 0 THEN [table |-> ivs, ok |-> FALSE]
        ELSE [table |-> [ivs EXCEPT ![at].completed = TRUE], ok |-> TRUE]

\* InterventionComplete payloads: an id and a date, NULL for today.
CompletePayloads ==
    {[intervention_id |-> iid, date |-> d] :
        iid \in {InterventionId("5-minute walk around the block.", 0),
                 InterventionId("60-second breathing reset: inhale 4, hold 4, exhale 4.", 1),
                 InterventionId("Take a short break when you can.", 0)},
        d \in {NULL, 1}}

\* POST /api/intervention/complete
intervention_complete(payload) ==
    /\ Started
    /\ calls < MaxCalls
    /\ calls' = calls + 1
    /\ \E completion_date \in {IF payload.date # NULL THEN payload.date ELSE today} :
       \E c \in {complete_intervention(interventions, Uid, payload.intervention_id,
                                       completion_date)} :
           /\ interventions' = c.table
           /\ last' = RetMore("complete", Uid, completion_date, c.ok, "none", NoScore,
                              [intervention_id |-> payload.intervention_id])
    /\ UNCHANGED <<today, users, daily, typing, voice, risk, firebase, pend, fn>>

NextInterventions ==
    \/ \E noise \in WideNoise : RunSeed(noise)
    \/ Tick
    \/ \E payload \in CheckinPayloads : submit_checkin(payload)
    \/ \E selection \in Selections \cup {<<>>} : interventions_today(selection)
    \/ \E payload \in CompletePayloads : intervention_complete(payload)

SpecInterventions == Init /\ [][NextInterventions]_vars

\* ------------------------------------------- compute_risk_for_date by itself

\* compute_risk_for_date called for any user and any date up to today, on
\* day records that check-ins left without a score or changed since.
NextCompute ==
    \/ \E noise \in WideNoise : RunSeed(noise)
    \/ Tick
    \/ \E payload \in CheckinPayloads : submit_checkin_stopped(payload)
    \/ \E u \in Callers, d \in 1..today : ComputeRisk(u, d)

SpecCompute == Init /\ [][NextCompute]_vars

\* ------------------------------------------------- a user over many weeks

\* The last date of a run over weeks.
LastDay == 41

\* The check-ins made in such a run.
MaxCheckins == 12

\* The days a user stays away from the application in one go.
IdleDays == 30

\* The check-ins a user makes on a date: values that move from day to day,
\* and every third day a bad day besides.
DayPayloads(d) ==
    { [mood |-> 1 + ((3 * d) % 9), sleep_hours |-> 50 + ((7 * d) % 30),
       sleep_quality |-> 1 + (d % 5), activity_minutes |-> 10 * (d % 7),
       activity_slider |-> NULL] }
    \cup IF d % 3 = 0
         THEN {[mood |-> 1, sleep_hours |-> 40, sleep_quality |-> 1,
                activity_minutes |-> 0, activity_slider |-> NULL]}
         ELSE {}

\* POST /api/checkin, the first of the day.
day_checkin(payload) ==
    /\ Started
    /\ calls < MaxCheckins
    /\ First(daily, Uid, today) = 0
    /\ calls' = calls + 1
    /\ users' = get_or_create_user(users, Uid)
    /\ \E dly \in {CheckinUpsert(daily, payload, Uid, today)} :
       \E c \in {ComputeRead(dly, risk, Uid, today, DEFAULT_BASELINE_DAYS)} :
           /\ daily' = dly
           /\ risk' = ComputeWrite(risk, c)
           /\ last' = ComputeRet("checkin", c, Uid, today)
    /\ UNCHANGED <<today, typing, voice, firebase, pend, fn, interventions>>

\* date.today() moves on to the next day, after a day with a check-in.
NextDay ==
    /\ Started
    /\ First(daily, Uid, today) # 0
    /\ today < LastDay
    /\ today' = today + 1
    /\ last' = Ret("tick", "None", today + 1, FALSE, "none", NoScore)
    /\ UNCHANGED <<users, daily, typing, voice, risk, firebase, calls, pend, fn, interventions>>

\* date.today() moves on by IdleDays with no request made in between.
Idle ==
    /\ Started
    /\ First(daily, Uid, today) # 0
    /\ today + IdleDays <= LastDay
    /\ today' = today + IdleDays
    /\ last' = Ret("tick", "None", today + IdleDays, FALSE, "none", NoScore)
    /\ UNCHANGED <<users, daily, typing, voice, risk, firebase, calls, pend, fn, interventions>>

InitWeeks == Init /\ ~firebase

NextWeeks ==
    \/ \E noise \in WideNoise : RunSeed(noise)
    \/ NextDay
    \/ Idle
    \/ \E payload \in DayPayloads(today) : day_checkin(payload)

SpecWeeks == InitWeeks /\ [][NextWeeks]_vars

\* -------------------------------------------------- requests in parallel

\* Requests are served by a thread pool, each with its own database session,
\* and RiskScore has no uniqueness constraint on (user_id, date): between the
\* query of compute_risk_for_date for the existing row (drift.py 356-359) and
\* its commit (360-380) another request can run.

\* compute_risk_for_date invocations in flight at once.
MaxPending == 2

\* An invocation that has not queried yet.
NoRead == [found |-> FALSE, path |-> "none", row |-> NoScore, existing |-> 0]

RemoveAt(seq, i) == SubSeq(seq, 1, i - 1) \o SubSeq(seq, i + 1, Len(seq))

\* submit_checkin up to its call of compute_risk_for_date: the DailySummary is
\* committed, the invocation is in flight.
StartCheckin(payload) ==
    /\ Started
    /\ calls < MaxCalls
    /\ Len(pend) < MaxPending
    /\ calls' = calls + 1
    /\ users' = get_or_create_user(users, Uid)
    /\ daily' = CheckinUpsert(daily, payload, Uid, today)
    /\ pend' = Append(pend, [user_id |-> Uid, date |-> today, pc |-> "query", c |-> NoRead])
    /\ last' = Ret("checkin_start", Uid, today, FALSE, "none", NoScore)
    /\ UNCHANGED <<today, typing, voice, risk, firebase, fn, interventions>>

\* A caller (get_today_score, get_trends) enters compute_risk_for_date.
StartCompute(user_id, date) ==
    /\ Started
    /\ Len(pend) < MaxPending
    /\ pend' = Append(pend, [user_id |-> user_id, date |-> date, pc |-> "query",
                             c |-> NoRead])
    /\ last' = Ret("compute_start", user_id, date, FALSE, "none", NoScore)
    /\ UNCHANGED <<today, users, daily, typing, voice, risk, firebase, calls, fn, interventions>>

\* Invocation i runs to its query for the existing row; with no summary it
\* returns None there.
ComputeQuery(i) ==
    /\ i \in 1..Len(pend)
    /\ pend[i].pc = "query"
    /\ \E p \in {pend[i]} :
       \E c \in {ComputeRead(daily, risk, p.user_id, p.date, DEFAULT_BASELINE_DAYS)} :
           IF c.found
           THEN /\ pend' = [pend EXCEPT ![i] = [p EXCEPT !.pc = "commit", !.c = c]]
                /\ last' = Ret("compute_query", p.user_id, p.date, FALSE, c.path, NoScore)
           ELSE /\ pend' = RemoveAt(pend, i)
                /\ last' = ComputeRet("compute", c, p.user_id, p.date)
    /\ UNCHANGED <<today, users, daily, typing, voice, risk, firebase, calls, fn, interventions>>

\* Invocation i updates the row it found, or inserts, and commits.
ComputeCommit(i) ==
    /\ i \in 1..Len(pend)
    /\ pend[i].pc = "commit"
    /\ risk' = ComputeWrite(risk, pend[i].c)
    /\ pend' = RemoveAt(pend, i)
    /\ last' = ComputeRet("compute", pend[i].c, pend[i].user_id, pend[i].date)
    /\ UNCHANGED <<today, users, daily, typing, voice, firebase, calls, fn, interventions>>

\* The check-in submitted while requests run in parallel: the first-day
\* example's.
ConcPayloads == {p \in CheckinPayloads : p.mood = 8}

NextConc ==
    \/ \E noise \in SeedNoise : RunSeed(noise)
    \/ Tick
    \/ \E payload \in ConcPayloads : StartCheckin(payload)
    \/ \E u \in Callers : StartCompute(u, today)
    \/ \E i \in 1..MaxPending : ComputeQuery(i)
    \/ \E i \in 1..MaxPending : ComputeCommit(i)

SpecConc == Init /\ [][NextConc]_vars

\* ------------------------------------------------ the engine's functions

\* z-scores (1/ZU) _deviation_to_risk is applied to.
ZValues == {-ZCAP, -200000, -50000, -1, 0, 1, 50000, 200000, ZCAP}

\* Signal names it is applied to: the keys of WEIGHTS and one that is none.
DevSignals == Signals \cup {"steps"}

DevInputs == {[kind |-> "dev", z |-> z, signal |-> sg] : z \in ZValues, sg \in DevSignals}

\* (value, mean, std) of _z_score followed by _deviation_to_risk: a baseline
\* of mean 300 and std 20 or 0, values either side of it and None.
ZInputs ==
    {[kind |-> "z", value |-> v, mean |-> 300 * U, std |-> sd, signal |-> sg] :
        v \in {NULL, 260, 290, 300, 310, 340}, sd \in {0, 20 * U},
        sg \in {"typing_avg_interval_ms", "mood_value", "sleep_hours"}}

\* Wellbeing scores (tenths) _momentum is applied to lists of.
ScoreValues == {650, 700, 750, 780, 795, 800}

MaxScores == 3

ScoreLists ==
    UNION {[1..n -> ScoreValues] : n \in 0..MaxScores} \cup {<<800, 780, 750, 700, 650>>}

MomInputs == {[kind |-> "mom", scores |-> sc] : sc \in ScoreLists}

\* Lists _compute_momentum_label_and_strength is applied to besides: the
\* two-point example [70, 60], and three scores whose slope is 0.8 and 2.0
\* either way.
LabelLists ==
    { <<700, 600>>, <<700, 550>>, <<784, 700, 800>>, <<800, 700, 784>>,
      <<760, 700, 800>>, <<800, 700, 760>>, <<785, 700, 800>>, <<800, 700, 785>> }

LabelInputs == {[kind |-> "lab", scores |-> sc] : sc \in ScoreLists \cup LabelLists}

\* Today's status and the scores of the window (today's last) the momentum
\* label of get_today_score is worked out from: scores below 30, below 45 and
\* at 45, apart by less than 3, by 10 and by more.
TodayStatuses == {"High", "Watch", "Stable"}

TodayScores == {200, 280, 300, 400, 430, 440, 450}

TodayInputs ==
    {[kind |-> "today", status |-> st, scores |-> sc] :
        st \in TodayStatuses, sc \in UNION {[1..n -> TodayScores] : n \in 1..MaxScores}}

\* Score lists the projection of get_trends is worked out from besides: more
\* than 7 scores, and lines that leave [0, 100] within 5 days.
ProjLists ==
    { <<300, 200, 700, 650, 600, 550, 500, 450, 400>>,
      <<0, 1000, 500, 500, 500, 500, 500, 500, 500>>,
      <<800, 780, 750, 700, 650>>, <<100, 80, 50, 20, 0>>, <<900, 950, 1000>>,
      <<333, 667>> }

ProjInputs ==
    {[kind |-> "proj", scores |-> sc, last_date |-> d] :
        sc \in ScoreLists \cup ProjLists, d \in {3}}

\* What compute_voice_drift is applied to: a baseline of mean 1000 and std 50
\* for its first nb keys, and a recording with the first nc keys, key i off
\* the mean by a pattern of so many std: one key at 3 and the rest at 0, all
\* at 5, all at 0.6, all at 1.2, alternately 1 above and 2 below, and 0.5 * i.
VoiceOffsets ==
    [one3 |-> [i \in 1..8 |-> IF i = 1 THEN 150 ELSE 0],
     all5 |-> [i \in 1..8 |-> 250],
     all06 |-> [i \in 1..8 |-> 30],
     all12 |-> [i \in 1..8 |-> 60],
     mixed |-> [i \in 1..8 |-> IF i % 2 = 1 THEN 50 ELSE -100],
     graded |-> [i \in 1..8 |-> 25 * i]]

KeyIndex(k) == CHOOSE i \in 1..Len(VOICE_KEYS) : VOICE_KEYS[i] = k

VoiceDriftInputs ==
    {[kind |-> "drift",
      current |-> [k \in {VOICE_KEYS[i] : i \in 1..nc} |->
                      1000 + VoiceOffsets[p][KeyIndex(k)]],
      baseline |-> [k \in {VOICE_KEYS[i] : i \in 1..nb} |-> <<1000 * U, 50 * U>>]] :
        p \in DOMAIN VoiceOffsets, nc \in {0, 2, 4, 8}, nb \in {0, 1, 3, 6, 8}}

FnInputs ==
    DevInputs \cup ZInputs \cup MomInputs \cup LabelInputs \cup TodayInputs \cup ProjInputs
        \cup VoiceDriftInputs

InitFn ==
    /\ today = 1
    /\ users = {}
    /\ daily = <<>>
    /\ typing = <<>>
    /\ voice = <<>>
    /\ risk = <<>>
    /\ firebase = FALSE
    /\ last = Ret("init", "None", 0, FALSE, "none", NoScore)
    /\ calls = 0
    /\ pend = <<>>
    /\ fn \in {[op |-> "none", in |-> x, out |-> 0] : x \in FnInputs}
    /\ interventions = <<>>

tables == <<today, users, daily, typing, voice, risk, firebase, last, calls, pend,
            interventions>>

ApplyDeviation ==
    /\ fn.op = "none" /\ fn.in.kind = "dev"
    /\ fn' = [fn EXCEPT !.op = "deviation_to_risk",
                        !.out = deviation_to_risk(fn.in.z, fn.in.signal)]
    /\ UNCHANGED tables

\* z = _z_score(value, mean, std); _deviation_to_risk(z, key), as in the loop
\* of _weighted_risk.
ApplyZ ==
    /\ fn.op = "none" /\ fn.in.kind = "z"
    /\ LET z == z_score(fn.in.value, fn.in.mean, fn.in.std)
       IN  fn' = [fn EXCEPT !.op = "z_score",
                            !.out = [z |-> z, risk |-> deviation_to_risk(z, fn.in.signal)]]
    /\ UNCHANGED tables

ApplyMomentum ==
    /\ fn.op = "none" /\ fn.in.kind = "mom"
    /\ fn' = [fn EXCEPT !.op = "momentum", !.out = momentum(fn.in.scores)]
    /\ UNCHANGED tables

ApplyLabel ==
    /\ fn.op = "none" /\ fn.in.kind = "lab"
    /\ fn' = [fn EXCEPT !.op = "momentum_label",
                        !.out = compute_momentum_label_and_strength(fn.in.scores)]
    /\ UNCHANGED tables

ApplyTodayMomentum ==
    /\ fn.op = "none" /\ fn.in.kind = "today"
    /\ fn' = [fn EXCEPT !.op = "today_momentum",
                        !.out = today_momentum(fn.in.status,
                                               fn.in.scores[Len(fn.in.scores)],
                                               fn.in.scores)]
    /\ UNCHANGED tables

ApplyProjection ==
    /\ fn.op = "none" /\ fn.in.kind = "proj"
    /\ fn' = [fn EXCEPT !.op = "projection",
                        !.out = Projection(fn.in.scores, fn.in.last_date)]
    /\ UNCHANGED tables

\* compute_voice_drift, then drift_to_level of its drift_score, as in
\* submit_voice_event.
ApplyVoiceDrift ==
    /\ fn.op = "none" /\ fn.in.kind = "drift"
    /\ \E drift \in {compute_voice_drift(fn.in.current, fn.in.baseline, VOICE_KEYS)} :
           fn' = [fn EXCEPT !.op = "voice_drift",
                            !.out = [drift |-> drift, lv |-> drift_to_level(drift)]]
    /\ UNCHANGED tables

NextFn ==
    \/ ApplyVoiceDrift
    \/ ApplyProjection
    \/ ApplyDeviation
    \/ ApplyZ
    \/ ApplyMomentum
    \/ ApplyLabel
    \/ ApplyTodayMomentum

SpecFn == InitFn /\ [][NextFn]_vars

\* --------------------------------------------------------------- properties

\* The calls whose record carries the row compute_risk_for_date returned.
ComputeOps == {"checkin", "typing", "voice", "compute"}

\* The RiskScore rows compute_risk_for_date wrote: those of the requests' user
\* (the seed writes only the org users' rows).
Written == SelectSeq(risk, LAMBDA r : r.user_id = Uid)

\* C1: every wellbeing_score that compute_risk_for_date persists or returns
\* lies in [0, 100] (0..1000 tenths), on the baseline path and on the
\* first-day path.
C1_ScoreInRange ==
    /\ \A i \in 1..Len(risk) :
           risk[i].wellbeing_score >= 0 /\ risk[i].wellbeing_score <= 1000
    /\ (last.op \in ComputeOps /\ last.found) =>
           (last.row.wellbeing_score >= 0 /\ last.row.wellbeing_score <= 1000)

\* C1 happens: the first day's row was scored on the first-day path from
\* mappings that average below 0 and stands at 0.0, and the call just made
\* scored on the baseline path, at 100.0.
C1_Witness ==
    /\ last.op \in ComputeOps /\ last.found /\ last.path = "baseline"
    /\ last.row.wellbeing_score = 1000
    /\ \E i \in 1..Len(risk) :
           /\ risk[i].user_id = Uid /\ risk[i].date = 1
           /\ risk[i].wellbeing_score = 0
           /\ SumContrib(FirstDayParts(daily[First(daily, Uid, 1)])) < 0

\* C2: status is a function of the stored (rounded) wellbeing_score: every
\* row compute_risk_for_date wrote is Stable iff score >= 70, Watch iff
\* 45 <= score < 70, High iff score < 45.
C2_StatusOfStoredScore ==
    \A i \in 1..Len(Written) :
        LET r == Written[i]
        IN  /\ (r.status = "Stable") <=> (r.wellbeing_score >= 700)
            /\ (r.status = "Watch") <=>
                   (r.wellbeing_score >= 450 /\ r.wellbeing_score < 700)
            /\ (r.status = "High") <=> (r.wellbeing_score < 450)

\* C3: calling compute_risk_for_date again for the same (user, date), with
\* the signal records and the earlier scores unchanged, leaves exactly one
\* RiskScore row for (user, date), holding what the first call wrote.
C3_Idempotent ==
    \A u \in Callers, d \in (today - 1)..today :
        LET once == compute_risk_for_date(daily, risk, u, d, DEFAULT_BASELINE_DAYS)
            twice == compute_risk_for_date(daily, once, u, d, DEFAULT_BASELINE_DAYS)
        IN  /\ twice = once
            /\ First(daily, u, d) # 0 => Len(Filter(twice, u, d, d)) = 1

\* C3 happens: compute_risk_for_date was called again for a day a handler
\* had scored already, on the baseline path, and the one row of that day is
\* the row the call returned.
C3_Witness ==
    /\ last.op = "compute" /\ last.found /\ last.path = "baseline"
    /\ Len(Filter(risk, last.user, last.date, last.date)) = 1
    /\ risk[First(risk, last.user, last.date)] = last.row
    /\ compute_risk_for_date(daily, risk, last.user, last.date,
                             DEFAULT_BASELINE_DAYS) = risk

\* C4: whatever the interleaving of two compute_risk_for_date invocations
\* for the same (user, date), risk_scores ends with at most one row for it.
C4_AtMostOneRow ==
    \A u \in Callers, d \in 1..MaxDay :
        pend = <<>> => Len(Filter(risk, u, d, d)) <= 1

\* C5: with no DailySummary for (user, date), compute_risk_for_date returns
\* None and leaves risk_scores as it was; with none for (user, today),
\* get_today_score returns None and writes nothing, a RiskScore row for
\* today or not.
C5_NoSummaryNoScore ==
    /\ \A u \in Callers, d \in (today - 1)..today :
           First(daily, u, d) = 0 =>
               /\ ~ComputeRead(daily, risk, u, d, DEFAULT_BASELINE_DAYS).found
               /\ compute_risk_for_date(daily, risk, u, d, DEFAULT_BASELINE_DAYS) = risk
    /\ \A u \in Callers :
           First(daily, u, today) = 0 =>
               /\ ~TodayScore(daily, risk, u, today).found
               /\ TodayScore(daily, risk, u, today).risk = risk
    /\ (last.op \in {"compute", "today_score"}
            /\ First(daily, last.user, last.date) = 0) =>
           (~last.found /\ last.row = NoScore)

\* C5 happens: get_today_score has just answered None for a user who has a
\* RiskScore row for today and no DailySummary.
C5_Witness ==
    /\ last.op = "today_score" /\ ~last.found
    /\ First(daily, last.user, today) = 0
    /\ First(risk, last.user, today) # 0

\* C6: in every reachable state, every RiskScore row has a DailySummary row
\* for the same (user, date).
C6_ScoreHasSummary ==
    \A i \in 1..Len(risk) : First(daily, risk[i].user_id, risk[i].date) # 0

\* The confidence C7 states, from the number of day records the baseline
\* was built from and the number of today's signals that are missing.
C7_Stated(n_records, missing) ==
    IF n_records < 4 \/ missing >= 4 THEN "low"
    ELSE IF n_records >= 7 /\ missing <= 1 THEN "high"
    ELSE "med"

\* C7: the confidence stored for a baseline-scored day is low when the
\* baseline was built from fewer than 4 day records or at least 4 signals are
\* missing, high only with at least 7 records and at most 1 missing, else med.
C7_ConfidenceFromRecords ==
    (last.op \in ComputeOps /\ last.found /\ last.path = "baseline") =>
        LET rows == BaselineRows(daily, last.user, last.date, DEFAULT_BASELINE_DAYS)
            day_row == daily[First(daily, last.user, last.date)]
        IN  last.row.confidence =
                C7_Stated(Min(DEFAULT_BASELINE_DAYS, Len(rows)), MissingCount(day_row))

\* C8: on the first-day path compute_risk_for_date stores confidence low and
\* the unweighted average of the first-day mappings of the signals present,
\* each mapping within [0, 100]; with none present, 50.0 / Watch / no drivers.
C8_FirstDayAverage ==
    (last.op \in ComputeOps /\ last.found /\ last.path = "first_day") =>
        LET day_row == daily[First(daily, last.user, last.date)]
            parts == FirstDayParts(day_row)
        IN  /\ last.row.confidence = "low"
            /\ \A i \in 1..Len(parts) : parts[i][2] >= 0 /\ parts[i][2] <= 10000000
            /\ parts # <<>> =>
                   last.row.wellbeing_score =
                       Round1(TDiv(SumContrib(parts), Len(parts)), 100000)
            /\ parts = <<>> =>
                   /\ last.row.wellbeing_score = 500
                   /\ last.row.status = "Watch"
                   /\ last.row.drivers = <<>>

\* The badness C9 states for a z-score and a signal.
C9_Stated(z, signal) ==
    CASE signal = "sleep_hours" -> Abs(z)
      [] signal \in {"sleep_quality", "activity_minutes", "mood_value",
                     "speech_sentiment_compound"} -> IF z < 0 THEN -z ELSE 0
      [] signal \in {"typing_avg_interval_ms", "typing_std_ms",
                     "typing_backspace_ratio", "typing_fragmentation",
                     "voice_strain_score"} -> IF z > 0 THEN z ELSE 0
      [] OTHER -> Abs(z)

\* C9: _deviation_to_risk is nonnegative and directional: |z| for sleep_hours,
\* max(0, -z) for sleep_quality, activity_minutes, mood_value and
\* speech_sentiment_compound, max(0, z) for the typing signals and
\* voice_strain_score, |z| for any other signal; z = (value - mean) / std, and
\* 0 when the value is absent; mean 300, std 20, value 340 give z = 2 and
\* badness 2 for typing_avg_interval_ms.
C9_DirectionalBadness ==
    /\ fn.op = "deviation_to_risk" =>
           /\ fn.out >= 0
           /\ fn.out = C9_Stated(fn.in.z, fn.in.signal)
    /\ fn.op = "z_score" =>
           /\ fn.in.value = NULL => fn.out.z = 0
           /\ (fn.in.value # NULL /\ fn.in.std > 0) =>
                  fn.out.z * (fn.in.std \div ZU) = fn.in.value * U - fn.in.mean
           /\ fn.out.risk >= 0
           /\ fn.out.risk = C9_Stated(fn.out.z, fn.in.signal)
           /\ (fn.in.value = 340 /\ fn.in.std = 20 * U
                   /\ fn.in.signal = "typing_avg_interval_ms") =>
                  (fn.out.z = 2 * ZU /\ fn.out.risk = 2 * ZU)

\* C9 happens: the example's z-score and badness have been computed.
C9_Witness ==
    /\ fn.op = "z_score" /\ fn.in.value = 340 /\ fn.in.std = 20 * U
    /\ fn.in.signal = "typing_avg_interval_ms"
    /\ fn.out.risk = 2 * ZU

\* The least-squares slope of scores against 0..n-1 as a fraction, from the
\* deviations of x and y from their means (each scaled by n).
C10_SlopeNum(scores) ==
    LET n == Len(scores)
        sx == SumSeq([i \in 1..n |-> i - 1])
        sy == SumSeq(scores)
    IN  SumSeq([i \in 1..n |-> (n * (i - 1) - sx) * (n * scores[i] - sy)])

C10_SlopeDen(scores) ==
    LET n == Len(scores)
        sx == SumSeq([i \in 1..n |-> i - 1])
    IN  SumSeq([i \in 1..n |-> (n * (i - 1) - sx) * (n * (i - 1) - sx)])

\* C10: _momentum is stable for fewer than 2 scores, else rapid_rise when the
\* least-squares slope is <= -2, slow_rise when it is <= -0.5, else stable;
\* [80, 78, 75, 70, 65] gives rapid_rise.  Scores count tenths.
C10_CoarseMomentum ==
    fn.op = "momentum" =>
        LET scores == fn.in.scores
            num == C10_SlopeNum(scores)
            den == C10_SlopeDen(scores)
        IN  /\ Len(scores) < 2 => fn.out = "stable"
            /\ Len(scores) >= 2 =>
                   fn.out = IF num <= -20 * den THEN "rapid_rise"
                            ELSE IF 2 * num <= -10 * den THEN "slow_rise"
                            ELSE "stable"
            /\ scores = <<800, 780, 750, 700, 650>> => fn.out = "rapid_rise"

\* C10 happens: the example's momentum has been computed.
C10_Witness ==
    /\ fn.op = "momentum"
    /\ fn.in.scores = <<800, 780, 750, 700, 650>>
    /\ fn.out = "rapid_rise"

\* The label and strength C11 states for a slope num / den (den > 0) of
\* scores in tenths.
C11_OfSlope(num, den) ==
    IF 10 * num >= 80 * den
    THEN <<"Recovering", IF 10 * num >= 200 * den THEN "rapid" ELSE "slow">>
    ELSE IF 10 * num <= -80 * den
    THEN <<"Rising", IF 10 * num <= -200 * den THEN "rapid" ELSE "slow">>
    ELSE <<"Stable", "None">>

C12_Stated(status, scores) ==
    LET cur == scores[Len(scores)]
        change == cur - scores[Len(scores) - 1]
        generic == compute_momentum_label_and_strength(scores)[1]
    IN  IF status = "High" /\ cur < 450 /\ Len(scores) >= 2
        THEN IF change < 0 THEN "Rising"
             ELSE IF change >= 100 THEN "Recovering"
             ELSE IF cur < 300 THEN "Rising"
             ELSE generic
        ELSE IF status = "Watch" /\ cur < 450 /\ Len(scores) >= 2 /\ change < -30
        THEN "Rising"
        ELSE generic

\* C12 as stated: with status High, score < 45 and a preceding score in the
\* window, the label of get_today_score is Rising on any drop, Recovering on
\* a rise of at least 10, Rising on a smaller rise (or none) with score < 30,
\* else the generic label; with status Watch and score < 45, Rising on a drop
\* of more than 3; in all other cases the generic label.
C12_AsStated ==
    fn.op = "today_momentum" => fn.out[1] = C12_Stated(fn.in.status, fn.in.scores)

\* C12, with the case the statement leaves out: the same, except that with
\* status High, score < 45 and no preceding score in the window the label is
\* Rising (slow), not the generic Stable.
C12_AcuteOverride ==
    fn.op = "today_momentum" =>
        IF fn.in.status = "High" /\ fn.in.scores[Len(fn.in.scores)] < 450
               /\ Len(fn.in.scores) < 2
        THEN fn.out = <<"Rising", "slow">>
        ELSE fn.out[1] = C12_Stated(fn.in.status, fn.in.scores)

\* C12 happens: on a High day at 28.0 after 20.0 the label is Rising, where
\* the generic rule says Recovering.
C12_Witness ==
    /\ fn.op = "today_momentum"
    /\ fn.in.status = "High" /\ fn.in.scores = <<200, 280>>
    /\ fn.out[1] = "Rising"
    /\ compute_momentum_label_and_strength(fn.in.scores)[1] = "Recovering"

\* The dates of the range of get_trends(u, days) that have a DailySummary and
\* no RiskScore in the table rsk.
C13_Missing(rsk, u, days) ==
    {d \in (today - (days - 1))..today : First(daily, u, d) # 0 /\ First(rsk, u, d) = 0}

\* C13: get_trends visits the dates of its range in ascending order, and for
\* each date with a signal record and no persisted score it computes and
\* persists the score before any later date: the rows a call adds are those
\* of the missing dates, one each, added in ascending date order after the
\* rows that stood, and the momentum of each is that of the scores persisted
\* before it for the 7 days before its date, followed by its own.
C13_BackfillOrder ==
    [][ last'.op = "trends" =>
            \A days \in TrendsDays :
                LET u == last'.user
                    old == Len(risk)
                    added == SubSeq(risk', old + 1, Len(risk'))
                IN  /\ SubSeq(risk', 1, old) = risk
                    /\ Len(added) = Cardinality(C13_Missing(risk, u, days))
                    /\ \A i \in 1..Len(added) :
                           /\ added[i].user_id = u
                           /\ added[i].date \in C13_Missing(risk, u, days)
                           /\ \A j \in 1..(i - 1) : added[j].date < added[i].date
                           /\ added[i].momentum =
                                  momentum(Append(
                                      ScoresBetween(SubSeq(risk', 1, old + i - 1), u,
                                                    added[i].date - TREND_DAYS,
                                                    added[i].date - 1),
                                      added[i].wellbeing_score))
      ]_vars

\* C13 happens: one call of get_trends has computed days 1, 2 and 3, and the
\* momentum of a later one of them is a rise over the scores computed before
\* it in the same call.
C13_Witness ==
    /\ last.op = "trends"
    /\ last.more.computed = <<1, 2, 3>>
    /\ \E i \in 2..Len(last.row) :
           /\ last.row[i].date \in {2, 3}
           /\ last.row[i].momentum = "rapid_rise"
           /\ last.row[i - 1].wellbeing_score > last.row[i].wellbeing_score

\* C14: the projection of get_trends has exactly 5 entries, dated the 5 days
\* after the last date in data, when the range holds at least 2 scores, and is
\* empty otherwise; each projected_score lies in [0, 100] and is, to the
\* nearest tenth, the value at its day of the least-squares line through the
\* last 7 scores (all of them when fewer), cut to [0, 100].
C14_ProjectionShape ==
    fn.op = "projection" =>
        LET all == fn.in.scores
            fit == SubSeq(all, Max(1, Len(all) - 6), Len(all))
            n == Len(fit)
            sx == SumSeq([i \in 1..n |-> i - 1])
            num == C10_SlopeNum(fit)
            den == C10_SlopeDen(fit)
            line(i) == SumSeq(fit) * den + num * (n * (n - 1 + i) - sx)
            cut(v) == Max(0, Min(1000 * n * den, v))
        IN  /\ Len(all) < 2 => fn.out = <<>>
            /\ Len(all) >= 2 =>
                   /\ Len(fn.out) = 5
                   /\ \A i \in 1..5 :
                          /\ fn.out[i].date = fn.in.last_date + i
                          /\ fn.out[i].projected_score >= 0
                          /\ fn.out[i].projected_score <= 1000
                          /\ 2 * Abs(fn.out[i].projected_score * n * den - cut(line(i)))
                                 <= n * den

\* C14 happens: from 9 scores whose last 7 fall by 5.0 a day to 40.0, the 5
\* days after day 3 are projected at 35.0 down to 15.0.
C14_Witness ==
    /\ fn.op = "projection"
    /\ fn.in.scores = <<300, 200, 700, 650, 600, 550, 500, 450, 400>>
    /\ Len(fn.out) = 5
    /\ fn.out[1] = [date |-> fn.in.last_date + 1, projected_score |-> 350]
    /\ fn.out[5] = [date |-> fn.in.last_date + 5, projected_score |-> 150]

\* The sum of the k largest second components of a set of pairs.
RECURSIVE C15_TopSum(_, _)
C15_TopSum(S, k) ==
    IF k = 0 \/ S = {} THEN 0
    ELSE LET m == CHOOSE x \in S : \A y \in S : y[2] <= x[2]
         IN  m[2] + C15_TopSum(S \ {m}, k - 1)

\* The |z| (1/ZU) of the keys that have a z-score: those of the recording
\* that the baseline has statistics for.
C15_AbsZ(current, baseline) ==
    {<<k, Abs(QuotZ(current[k] * U - baseline[k][1], Max(baseline[k][2], EPS)))>> :
        k \in DOMAIN current \cap DOMAIN baseline}

\* What C15 states of the drift and the level: drift_score is the mean of the
\* K = min(4, n) largest |z| of the n keys with a z-score, 0 when n = 0; the
\* level is low below 0.6, medium below 1.2, else high; one key at 3 sigma
\* with at least three others at 0 gives 0.75 and medium.
C15_DriftAndLevel ==
    LET zs == C15_AbsZ(fn.in.current, fn.in.baseline)
        K == Min(4, Cardinality(zs))
        drift == fn.out.drift
    IN  /\ zs = {} => drift = 0
        /\ zs # {} =>
               /\ K * drift <= C15_TopSum(zs, K)
               /\ C15_TopSum(zs, K) < K * (drift + 1)
        /\ fn.out.lv.level = IF drift < 60000 THEN "low"
                             ELSE IF drift < 120000 THEN "medium" ELSE "high"
        /\ (Cardinality(zs) >= 4
                /\ Cardinality({x \in zs : x[2] = 3 * ZU}) = 1
                /\ Cardinality({x \in zs : x[2] = 0}) = Cardinality(zs) - 1) =>
               (drift = 75000 /\ fn.out.lv.level = "medium")

\* C15 as stated: compute_voice_drift gives the mean of the K largest |z|,
\* drift_to_level the level, and the strain score is drift / 2 * 100 cut to
\* [0, 100].
C15_AsStated ==
    fn.op = "voice_drift" =>
        /\ C15_DriftAndLevel
        /\ fn.out.lv.score * 2000 = Max(0, Min(200000, fn.out.drift))

\* C15, with the strain score as the code gives it: the same, except that the
\* strain score is the integer part of drift / 2 * 100 cut to [0, 100].
C15_VoiceDrift ==
    fn.op = "voice_drift" =>
        /\ C15_DriftAndLevel
        /\ fn.out.lv.score \in 0..100
        /\ fn.out.lv.score * 2000 <= Max(0, Min(200000, fn.out.drift))
        /\ fn.out.lv.score = 100 \/ fn.out.drift < (fn.out.lv.score + 1) * 2000

\* C15 happens: 8 keys have a z-score, one at 3 sigma and seven at 0; the
\* drift is 0.75, the level medium and the strain score 37.
C15_Witness ==
    /\ fn.op = "voice_drift"
    /\ Cardinality(C15_AbsZ(fn.in.current, fn.in.baseline)) = 8
    /\ Cardinality({x \in C15_AbsZ(fn.in.current, fn.in.baseline) : x[2] = 3 * ZU}) = 1
    /\ Cardinality({x \in C15_AbsZ(fn.in.current, fn.in.baseline) : x[2] = 0}) = 7
    /\ fn.out = [drift |-> 75000, lv |-> [score |-> 37, level |-> "medium"]]

\* C16: when the user has fewer than 2 earlier voice sessions (every one
\* holds features), submit_voice_event stores and returns strain score 0,
\* level low, confidence low and no drivers whatever the features of the
\* upload, and still adds the session, with its features, to voice_sessions.
C16_BuildingBaseline ==
    [][ (last'.op = "voice" /\ Len(RowsOf(voice, last'.user)) < 2) =>
            /\ Len(voice') = Len(voice) + 1
            /\ SubSeq(voice', 1, Len(voice)) = voice
            /\ LET session == voice'[Len(voice')]
               IN  /\ session.user_id = last'.user
                   /\ session.date = today
                   /\ \E payload \in VoiceUploads :
                          /\ VoiceStatus(payload) = 200
                          /\ session.voice_features = payload.features
                   /\ session.voice_strain_score = 0
                   /\ session.voice_strain_level = "low"
                   /\ session.voice_confidence = "low"
            /\ last'.more = [voice_strain_score |-> 0, voice_strain_level |-> "low",
                             voice_confidence |-> "low", drivers |-> <<>>]
      ]_vars

\* C16 happens: the user's second session has just been stored at 0 / low /
\* low, its features far from those of the first, and the two now make a
\* baseline.
C16_Witness ==
    /\ last.op = "voice"
    /\ Len(RowsOf(voice, last.user)) = 2
    /\ RowsOf(voice, last.user)[1].voice_features = Features(0)
    /\ RowsOf(voice, last.user)[2].voice_features = Features(60)
    /\ RowsOf(voice, last.user)[2].voice_strain_score = 0
    /\ last.more.voice_strain_level = "low" /\ last.more.drivers = <<>>
    /\ DOMAIN baseline_from_sessions(RowsOf(voice, last.user), VOICE_KEYS) # {}

\* The DailySummary fields a submission carries.
C17_Carried(op) ==
    CASE op = "checkin" ->
             {"sleep_hours", "sleep_quality", "activity_minutes", "mood_value"}
      [] op = "typing" ->
             {"typing_avg_interval_ms", "typing_std_ms", "typing_backspace_ratio",
              "typing_fragmentation", "typing_late_night"}
      [] op = "voice" ->
             {"voice_strain_score", "voice_strain_level", "voice_confidence",
              "speech_sentiment_compound", "speech_sentiment_label"}

\* C17: after a check-in, typing or voice submission there is exactly one
\* DailySummary row for (user, today); the submission changes no other row,
\* and in that row only the fields it carries (a check-in sets sleep_hours,
\* sleep_quality, activity_minutes and mood_value to the payload's): every
\* other field is as it was, or empty in a row just created.
C17_SameDayOverwrite ==
    [][ last'.op \in {"checkin", "typing", "voice"} =>
            LET u == last'.user
                at == First(daily, u, today)
                old == IF at = 0 THEN EmptyDaily(u, today) ELSE daily[at]
                new == daily'[First(daily', u, today)]
            IN  /\ Len(Filter(daily', u, today, today)) = 1
                /\ Len(daily') = IF at = 0 THEN Len(daily) + 1 ELSE Len(daily)
                /\ \A i \in 1..Len(daily) : i # at => daily'[i] = daily[i]
                /\ First(daily', u, today) = IF at = 0 THEN Len(daily') ELSE at
                /\ \A f \in DOMAIN new \ C17_Carried(last'.op) : new[f] = old[f]
                /\ last'.op = "checkin" =>
                       \E payload \in CheckinPayloads :
                           /\ new.sleep_hours = payload.sleep_hours
                           /\ new.sleep_quality = payload.sleep_quality
                           /\ new.activity_minutes = payload.activity_minutes
                           /\ new.mood_value = payload.mood
      ]_vars

\* C17 happens: four submissions on one day, a typing event, a voice upload
\* and two check-ins, the second check-in last: the day's one row holds that
\* check-in's values with the typing aggregates and the voice fields.
C17_Witness ==
    /\ last.op = "checkin" /\ calls = 4
    /\ Len(Filter(daily, Uid, 1, MaxDay)) = 1
    /\ Len(Filter(typing, Uid, today, today)) = 1
    /\ Len(Filter(voice, Uid, today, today)) = 1
    /\ LET row == daily[First(daily, Uid, today)]
       IN  /\ row.mood_value = 8
           /\ row.typing_avg_interval_ms # NULL
           /\ row.voice_strain_level # "None"

\* What C18 says the RiskScore store has no part in: the wellbeing_score,
\* status, confidence and drivers of a row.
C18_Scored(row) ==
    <<row.wellbeing_score, row.status, row.confidence, row.drivers>>

\* Stores that differ from the RiskScore table: none, the table without its
\* latest row, and the table with every score turned over.
C18_OtherStores ==
    { <<>>,
      SubSeq(risk, 1, Len(risk) - 1),
      [i \in 1..Len(risk) |->
          [risk[i] EXCEPT !.wellbeing_score = 1000 - @, !.momentum = "rapid_rise"]] }

\* C18: the wellbeing_score, status, confidence and drivers that
\* compute_risk_for_date gives (user, date) depend on the DailySummary rows
\* alone: from a state that differs only in the RiskScore store it gives the
\* same four, and what a call returned is what an empty store would give.
C18_NoFeedback ==
    /\ \A u \in Callers, d \in (today - 1)..today, other \in C18_OtherStores :
           LET here == ComputeRead(daily, risk, u, d, DEFAULT_BASELINE_DAYS)
               there == ComputeRead(daily, other, u, d, DEFAULT_BASELINE_DAYS)
           IN  /\ there.found = here.found
               /\ C18_Scored(there.row) = C18_Scored(here.row)
    /\ (last.op \in ComputeOps /\ last.found) =>
           C18_Scored(last.row) =
               C18_Scored(ComputeRead(daily, <<>>, last.user, last.date,
                                      DEFAULT_BASELINE_DAYS).row)

\* C18 happens: a call has scored a day on the baseline path after earlier
\* scores that are higher, so that the momentum it stored is a rise, which an
\* empty store would not give, while the score is what the empty store gives.
C18_Witness ==
    /\ last.op \in ComputeOps /\ last.found /\ last.path = "baseline"
    /\ last.row.momentum = "rapid_rise"
    /\ ComputeRead(daily, <<>>, last.user, last.date,
                   DEFAULT_BASELINE_DAYS).row.momentum = "stable"
    /\ C18_Scored(last.row) =
           C18_Scored(ComputeRead(daily, <<>>, last.user, last.date,
                                  DEFAULT_BASELINE_DAYS).row)

\* The day's row and the baseline of the call last made.
C19_DayRow == daily[First(daily, last.user, last.date)]

C19_Baseline ==
    baseline_stats(BaselineRows(daily, last.user, last.date, DEFAULT_BASELINE_DAYS),
                   DEFAULT_BASELINE_DAYS)

\* weight * badness (10^-7) of each signal present today that has baseline
\* statistics, as a set of (key, contribution) pairs.
C19_Contributions ==
    {<<k, WeightOf(k) * deviation_to_risk(
              z_score(C19_DayRow[k], C19_Baseline[k][1], C19_Baseline[k][2]), k)>> :
        k \in {key \in Signals \cap DOMAIN C19_Baseline : C19_DayRow[key] # NULL}}

C19_Of(k) == (CHOOSE c \in C19_Contributions : c[1] = k)[2]

\* C19: on the baseline path risk = min(1, 2 * sum of weight * badness over
\* the signals present today that have baseline statistics) and wellbeing =
\* (1 - risk) * 100 cut to [0, 100] (stored to 1 decimal); the drivers are at
\* most 3 distinct signal keys, each with a contribution above 0.05, in
\* descending order of contribution, each among the 3 largest contributors.
C19_RiskAggregation ==
    (last.op \in ComputeOps /\ last.found /\ last.path = "baseline") =>
        LET cs == C19_Contributions
            total == C15_TopSum(cs, Cardinality(cs))
            risk_0_1 == Min(10000000, 2 * total)
            drivers == last.row.drivers
        IN  /\ last.row.wellbeing_score =
                   Round1(Max(0, Min(10000000, 10000000 - risk_0_1)), 100000)
            /\ Len(drivers) <= 3
            /\ \A i \in 1..Len(drivers) :
                   /\ drivers[i] \in {c[1] : c \in cs}
                   /\ C19_Of(drivers[i]) > 500000
                   /\ Cardinality({c \in cs : c[2] > C19_Of(drivers[i])}) < 3
                   /\ \A j \in 1..(i - 1) :
                          /\ drivers[j] # drivers[i]
                          /\ C19_Of(drivers[j]) >= C19_Of(drivers[i])

\* C19 happens: a day was scored on the baseline path with a risk strictly
\* between 0 and 1, from three contributing signals, all three drivers.
C19_Witness ==
    /\ last.op \in ComputeOps /\ last.found /\ last.path = "baseline"
    /\ last.row.wellbeing_score > 0 /\ last.row.wellbeing_score < 1000
    /\ Cardinality(C19_Contributions) = 3
    /\ Len(last.row.drivers) = 3

\* The baseline records of the call last made: the first baseline_days day
\* records of the window before its date.
C20_Records ==
    LET rows == BaselineRows(daily, last.user, last.date, DEFAULT_BASELINE_DAYS)
    IN  SubSeq(rows, 1, Min(DEFAULT_BASELINE_DAYS, Len(rows)))

\* The signals at least 2 of the baseline records hold a value for.
C20_Qualifying ==
    {k \in Signals :
        Cardinality({i \in 1..Len(C20_Records) : C20_Records[i][k] # NULL}) >= 2}

\* C20: a signal has baseline statistics only if at least 2 baseline records
\* hold a value for it; one with fewer adds nothing to the risk and is no
\* driver; when no signal qualifies the baseline is empty and the day is
\* scored on the first-day path.
C20_TwoValuesToQualify ==
    (last.op \in ComputeOps /\ last.found) =>
        LET qualifying == {c \in C19_Contributions : c[1] \in C20_Qualifying}
            risk_0_1 == Min(10000000, 2 * C15_TopSum(qualifying, Cardinality(qualifying)))
        IN  /\ DOMAIN C19_Baseline = C20_Qualifying
            /\ (C20_Qualifying = {}) <=> (last.path = "first_day")
            /\ last.path = "baseline" =>
                   /\ last.row.wellbeing_score =
                          Round1(Max(0, Min(10000000, 10000000 - risk_0_1)), 100000)
                   /\ \A i \in 1..Len(last.row.drivers) :
                          last.row.drivers[i] \in C20_Qualifying

\* C20 happens: a day was scored on the baseline path with some signals
\* qualifying, while a signal that has a value today and in one baseline
\* record only is left out.
C20_Witness ==
    /\ last.op \in ComputeOps /\ last.found /\ last.path = "baseline"
    /\ last.row.drivers # <<>>
    /\ \E k \in Signals \ C20_Qualifying :
           /\ C19_DayRow[k] # NULL
           /\ Cardinality({i \in 1..Len(C20_Records) : C20_Records[i][k] # NULL}) = 1

\* The DailySummary rows of the user of the call last made that are dated
\* in the window of DEFAULT_BASELINE_DAYS + 30 days ending the day before
\* the call's date.
C21_Window ==
    {i \in 1..Len(daily) :
        /\ daily[i].user_id = last.user
        /\ daily[i].date < last.date
        /\ daily[i].date >= last.date - 1 - (DEFAULT_BASELINE_DAYS + 30)}

\* Those of them with fewer than DEFAULT_BASELINE_DAYS rows of the window
\* dated before them: the earliest by date.
C21_Earliest ==
    {i \in C21_Window :
        Cardinality({j \in C21_Window : daily[j].date < daily[i].date})
            < DEFAULT_BASELINE_DAYS}

\* The day's result from the statistics of these rows alone.
C21_Expected ==
    DayScore(C19_DayRow,
             baseline_stats(SelectSeq(daily, LAMBDA r :
                                \E i \in C21_Earliest : daily[i] = r),
                            DEFAULT_BASELINE_DAYS),
             DEFAULT_BASELINE_DAYS)

\* C21: the baseline of a target date is that of the baseline_days earliest
\* records of the window ending the day before; the target day's own record
\* and the later records of the window do not enter it.
C21_EarliestBeforeTarget ==
    (last.op \in ComputeOps /\ last.found) =>
        /\ last.path = C21_Expected.path
        /\ last.row.wellbeing_score = C21_Expected.wellbeing
        /\ last.row.status = C21_Expected.status
        /\ last.row.confidence = C21_Expected.confidence
        /\ last.row.drivers = C21_Expected.drivers

\* C21 happens: a day was scored with more than baseline_days records in its
\* window, and the later ones would have given another score.
C21_Witness ==
    /\ last.op \in ComputeOps /\ last.found /\ last.path = "baseline"
    /\ Cardinality(C21_Window) > DEFAULT_BASELINE_DAYS
    /\ last.row.wellbeing_score #
           DayScore(C19_DayRow,
                    baseline_stats(SelectSeq(daily, LAMBDA r :
                                       \E i \in C21_Window \ C21_Earliest : daily[i] = r),
                                   DEFAULT_BASELINE_DAYS),
                    DEFAULT_BASELINE_DAYS).wellbeing

\* The records the baseline of target date d is computed from, for the user
\* of the call last made.
C22_Used(d) ==
    LET rows == BaselineRows(daily, last.user, d, DEFAULT_BASELINE_DAYS)
    IN  SubSeq(rows, 1, Min(DEFAULT_BASELINE_DAYS, Len(rows)))

\* The dates before that of the call last made for which the user has a
\* score, with at least baseline_days day records before them.
C22_EarlierTargets ==
    {d \in 1..(last.date - 1) :
        /\ First(risk, last.user, d) # 0
        /\ Cardinality({i \in 1..Len(daily) :
               daily[i].user_id = last.user /\ daily[i].date < d})
               >= DEFAULT_BASELINE_DAYS}

\* C22: once the history holds baseline_days records, every later target
\* date is scored against the same baseline records.
C22_Anchor ==
    (last.op \in ComputeOps /\ last.found) =>
        \A d \in C22_EarlierTargets : C22_Used(d) = C22_Used(last.date)

\* The scores the coarse momentum of the call last made was computed from.
C23_Scores == MomentumScores(risk, last.user, last.date, last.row.wellbeing_score)

\* C23: the coarse momentum stored for a date is that of at most 7 scores,
\* today's the last of them.
C23_AtMostSevenScores ==
    (last.op \in ComputeOps /\ last.found) =>
        /\ last.row.momentum = momentum(C23_Scores)
        /\ C23_Scores[Len(C23_Scores)] = last.row.wellbeing_score
        /\ Len(C23_Scores) <= TREND_DAYS

\* The session the voice upload last made stored, and the number of sessions
\* its baseline was taken from: the user's earlier ones, BASELINE_N at most.
C24_Session == LET sess == RowsOf(voice, last.user) IN sess[Len(sess)]

C24_BaselineSessions == Min(BASELINE_N, Len(RowsOf(voice, last.user)) - 1)

C24_Used == Cardinality({i \in 1..Len(VOICE_KEYS) :
                             VOICE_KEYS[i] \in DOMAIN C24_Session.voice_features})

\* The three gates, on a session count, a duration and a feature count.
C24_Gates(count, duration_s, used) ==
    IF count < 3 \/ duration_s < 6 \/ used < 4 THEN "low"
    ELSE IF count < 7 \/ duration_s < 10 THEN "medium"
    ELSE "high"

C24_Rank(conf) == CASE conf = "low" -> 0 [] conf = "medium" -> 1 [] conf = "high" -> 2

C25_Touched ==
    {i \in 1..Len(risk') : i > Len(risk) \/ risk'[i] # risk[i]}

\* C25: a call compute_risk_for_date(user, d) creates or changes at most the
\* one RiskScore row of (user, d); the other RiskScore rows and all
\* DailySummary rows stay as they were, and a call that returns None changes
\* nothing.
C25_Frame ==
    [][ last'.op = "compute" =>
            /\ daily' = daily
            /\ Len(risk') >= Len(risk)
            /\ Cardinality(C25_Touched) <= 1
            /\ \A i \in C25_Touched :
                   risk'[i].user_id = last'.user /\ risk'[i].date = last'.date
            /\ Cardinality({i \in 1..Len(risk') :
                   risk'[i].user_id = last'.user /\ risk'[i].date = last'.date}) <= 1
            /\ ~last'.found => risk' = risk
      ]_vars

\* C25 happens: a call has written a day's score, the user having a score of
\* another date and of another status.
C25_Witness ==
    /\ last.op = "compute" /\ last.found
    /\ \E i \in 1..Len(risk) :
           /\ risk[i].user_id = last.user
           /\ risk[i].date # last.date
           /\ risk[i].status # last.row.status

\* A RiskScore row whose status is above what its stored score allows.
C26_Above(r) ==
    \/ r.status = "Watch" /\ r.wellbeing_score < 450
    \/ r.status = "Stable" /\ r.wellbeing_score < 700

\* C26: no record compute_risk_for_date writes is 'Watch' with a stored score
\* below 45 or 'Stable' with one below 70, so get_today_score never reports
\* such a record a 'Watch' below 45.
C26_StatusNotAboveScore ==
    /\ \A i \in 1..Len(Written) : ~C26_Above(Written[i])
    /\ (last.op \in ComputeOps /\ last.found) => ~C26_Above(last.row)
    /\ (last.op = "today_score" /\ last.found /\ last.user = Uid) =>
           ~(last.row.status = "Watch" /\ last.row.wellbeing_score < 450)

\* C26 happens: get_today_score reported a stored record of the engine with a
\* score from 40 to 45, which is 'High'.
C26_Witness ==
    /\ last.op = "today_score" /\ last.found /\ last.user = Uid
    /\ last.path = "stored"
    /\ last.row.wellbeing_score >= 400 /\ last.row.wellbeing_score < 450
    /\ last.row.status = "High"

\* C27: every entry of the driver_contributions get_today_score returns has
\* direction 'up' and a contribution of 0 or more, whether the score rose or
\* fell against the preceding one.
C27_DirectionUp ==
    (last.op = "today_score" /\ last.found) =>
        \A i \in 1..Len(last.more.driver_contributions) :
            /\ last.more.driver_contributions[i].direction = "up"
            /\ last.more.driver_contributions[i].contribution >= 0

\* C27 happens: get_today_score listed contributions for a score above the
\* preceding one.
C27_Witness ==
    /\ last.op = "today_score" /\ last.found
    /\ last.more.driver_contributions # <<>>
    /\ LET scores == ScoresBetween(risk, last.user, last.date - TREND_DAYS, last.date)
       IN  /\ Len(scores) >= 2
           /\ last.row.wellbeing_score > scores[Len(scores) - 1]

\* The score of today's DailySummary row of the requests' user as it stands,
\* against the baseline of the records before today.
C28_Fresh ==
    DayScore(daily[First(daily, Uid, today)],
             baseline_stats(BaselineRows(daily, Uid, today, DEFAULT_BASELINE_DAYS),
                            DEFAULT_BASELINE_DAYS),
             DEFAULT_BASELINE_DAYS)

C28_IsFresh(r) ==
    /\ r.wellbeing_score = C28_Fresh.wellbeing
    /\ r.status = C28_Fresh.status
    /\ r.confidence = C28_Fresh.confidence
    /\ r.drivers = C28_Fresh.drivers

\* C28: with requests served one at a time, after a check-in, a typing or a
\* voice submission has returned, the stored RiskScore of (user, today) is the
\* score of today's DailySummary row as it stands, and so is the row
\* get_today_score reports.
C28_Freshness ==
    /\ (last.op \in {"checkin", "typing", "voice"}) =>
           /\ First(risk, Uid, today) # 0
           /\ C28_IsFresh(risk[First(risk, Uid, today)])
    /\ (last.op = "today_score" /\ last.found /\ last.user = Uid) =>
           C28_IsFresh(last.row)

\* C28 happens: get_today_score reported the stored row of a day with a
\* check-in and a voice recording, each of which changed the day's score.
C28_Witness ==
    /\ last.op = "today_score" /\ last.found /\ last.user = Uid
    /\ last.path = "stored"
    /\ LET row == daily[First(daily, Uid, today)]
           base == baseline_stats(BaselineRows(daily, Uid, today, DEFAULT_BASELINE_DAYS),
                                  DEFAULT_BASELINE_DAYS)
           no_checkin == [row EXCEPT !.mood_value = NULL, !.sleep_hours = NULL,
                                     !.sleep_quality = NULL, !.activity_minutes = NULL]
           no_voice == [row EXCEPT !.voice_strain_score = NULL,
                                   !.speech_sentiment_compound = NULL]
       IN  /\ row.mood_value # NULL /\ row.voice_strain_score # NULL
           /\ DayScore(no_checkin, base, DEFAULT_BASELINE_DAYS).wellbeing
                  # last.row.wellbeing_score
           /\ DayScore(no_voice, base, DEFAULT_BASELINE_DAYS).wellbeing
                  # last.row.wellbeing_score

\* Today's record of the call last made holds no value for any signal that
\* has baseline statistics.
C29_NothingToCompare == \A k \in C20_Qualifying : C19_DayRow[k] = NULL

\* C29: on the baseline path a record with no value for any signal of the
\* baseline scores 100.0, 'Stable', with no drivers; 50.0 / 'Watch' / no
\* drivers is what a record with no usable signal gets on the first-day path.
C29_NoSignalOnBaselinePath ==
    (last.op \in ComputeOps /\ last.found) =>
        /\ (last.path = "baseline" /\ C29_NothingToCompare) =>
               /\ last.row.wellbeing_score = 1000
               /\ last.row.status = "Stable"
               /\ last.row.drivers = <<>>
        /\ (last.path = "first_day"
            /\ \A k \in {"mood_value", "sleep_quality", "sleep_hours", "activity_minutes",
                         "voice_strain_score", "speech_sentiment_compound"} :
                   C19_DayRow[k] = NULL) =>
               /\ last.row.wellbeing_score = 500
               /\ last.row.status = "Watch"
               /\ last.row.drivers = <<>>

\* C29 happens: a day with typing only was scored against a baseline of
\* check-ins.
C29_Witness ==
    /\ last.op \in ComputeOps /\ last.found /\ last.path = "baseline"
    /\ C29_NothingToCompare
    /\ C19_DayRow.typing_avg_interval_ms # NULL
    /\ "mood_value" \in C20_Qualifying

\* The rows of the interventions table that a user has for a date and an id.
C30_Rows(ivs, user_id, dte, iid) ==
    {i \in 1..Len(ivs) : /\ ivs[i].user_id = user_id /\ ivs[i].date = dte
                         /\ ivs[i].intervention_id = iid}

\* C30: get_today_interventions returns the ids of the first 3 actions of its
\* list, creates a row only for an id the user has no row for on the day (so
\* none when called again with the same list), reports a row completed that
\* was completed before, and resets no completion; complete_intervention
\* marks the row of (user, id, date), and with no such row returns false and
\* changes nothing.
C30_InterventionTracking ==
    [][ /\ Len(interventions') >= Len(interventions)
        /\ \A i \in 1..Len(interventions) :
               /\ interventions'[i].intervention_id = interventions[i].intervention_id
               /\ interventions'[i].user_id = interventions[i].user_id
               /\ interventions'[i].date = interventions[i].date
               /\ interventions[i].completed => interventions'[i].completed
        /\ last'.op = "interventions" =>
               LET actions == last'.more.actions
                   result == last'.more.result
               IN  /\ Len(result) = Min(3, Len(actions)) /\ Len(result) >= 1
                   /\ \A n \in 1..Len(result) :
                          LET iid == InterventionId(actions[n], n - 1)
                              before == C30_Rows(interventions, last'.user, today, iid)
                              after == C30_Rows(interventions', last'.user, today, iid)
                          IN  /\ result[n].intervention_id = iid
                              /\ result[n].title = actions[n]
                              /\ Cardinality(after) = 1
                              /\ before # {} => after = before
                              /\ result[n].completed =
                                     (\E i \in before : interventions[i].completed)
                              /\ \A i \in after :
                                     interventions'[i].completed = result[n].completed
                   /\ Len(interventions') - Len(interventions) =
                          Cardinality({n \in 1..Len(result) :
                              C30_Rows(interventions, last'.user, today,
                                       result[n].intervention_id) = {}})
        /\ last'.op = "complete" =>
               LET rows == C30_Rows(interventions, last'.user, last'.date,
                                    last'.more.intervention_id)
               IN  /\ last'.found = (rows # {})
                   /\ rows = {} => interventions' = interventions
                   /\ \A i \in rows : interventions'[i].completed
      ]_vars

\* C30 happens: a call of get_today_interventions repeated with three actions
\* found the day's three rows and reports one of them completed.
C30_Witness ==
    /\ last.op = "interventions"
    /\ Len(last.more.result) = 3
    /\ \E n \in 1..3 : last.more.result[n].completed
    /\ Cardinality({i \in 1..Len(interventions) :
           interventions[i].user_id = last.user /\ interventions[i].date = last.date}) = 3

====
